---- MODULE Spec2Model ----
(***************************************************************************)
(* Model of scripts/generate_discoverability_assets.py: the query-hub      *)
(* selector (score_record_for_hub, select_records_for_hub and the loop     *)
(* body of write_query_hub_markdown), the cluster classifier               *)
(* (classify_cluster), the intent rules (infer_intent_signals), the        *)
(* keyword extractor (extract_keywords) and the summary filter             *)
(* (best_summary and the placeholder of build_records) and a run of main() *)
(* (build_records over the tutorial directories, then the hub loop); of    *)
(* scripts/deepen_v2_chapters.py: add_depth_to_chapter and the blocks it   *)
(* appends; and of scripts/verify_tutorial_sources.py: verify_repositories *)
(* and its pool of worker threads.                                         *)
(*                                                                         *)
(* A Python str is a sequence of one-character strings, so that substring  *)
(* tests, lowercasing and code-point ordering are computed, not assumed.   *)
(***************************************************************************)
EXTENDS Integers, Sequences, FiniteSets, TLC

VARIABLES
    records,    \* the list[dict] handed to select_records_for_hub
    hub,        \* the hub definition under selection
    limit,      \* the limit argument of select_records_for_hub
    ranked,     \* local `ranked` of select_records_for_hub
    scores,     \* score_record_for_hub of each element of `ranked`
    ordered,    \* local `ordered` of select_records_for_hub before the cap
    selected,   \* the value select_records_for_hub returned
    coverage,   \* coverage[hub_id] of write_query_hub_markdown
    section,    \* which "Recommended tutorials" branch was rendered
    entry,      \* the arguments of the record function under call
    classified, \* the value classify_cluster returned
    intents,    \* the value infer_intent_signals returned
    rec_keywords, \* the value extract_keywords returned
    rec_title,  \* local `title` of build_records
    quote,      \* local `quote` of best_summary
    paragraph,  \* local `paragraph` of best_summary
    rec_summary, \* the value best_summary returned, then local `summary` of build_records
    corpus,     \* the directories under tutorials/, each with its index.md
    listing,    \* the order in which iterdir listed them in this run
    hub_table,  \* the QUERY_HUBS in force
    hub_index,  \* how many hubs write_query_hub_markdown has processed
    hub_coverage, \* the slug lists of the hubs processed, in hub order
    first_run,  \* listing, records and hub_coverage of the first run of main()
    chapter_file,   \* the text of the chapter file add_depth_to_chapter works on
    first_chapter,  \* that text before the first run
    chapter_links,  \* source_links and related_links of the tutorial
    target_lines,   \* the target_lines argument of the run
    lines_before,   \* local `before` of add_depth_to_chapter
    chapter_text,   \* local `text` of add_depth_to_chapter
    added_sections, \* local `added_sections`, by the kind of each block
    remaining,      \* local `remaining`
    scenario_index, \* local `scenario_index`
    depth_returned, \* the tuple add_depth_to_chapter returned
    depth_runs,     \* how many runs of add_depth_to_chapter have started
    last_run,       \* the file and the target of the run before this one
    repos,          \* the repos argument of verify_repositories
    max_workers,    \* its max_workers argument
    future_map,     \* the repositories submitted to the pool so far
    work_queue,     \* the submitted tasks no worker has taken yet
    running,        \* the repositories whose fetch_repo_metadata is executing
    futures,        \* the outcome of every finished task
    yielded,        \* the futures as_completed has handed to the loop body, in order
    results,        \* local `results` of verify_repositories
    pc          \* position of the caller

hub_vars == <<records, hub, limit, ranked, scores, ordered, selected, coverage, section>>

build_vars == <<rec_title, quote, paragraph, rec_summary>>

main_vars == <<corpus, listing, hub_table, hub_index, hub_coverage, first_run>>

deepen_vars ==
    <<chapter_file, first_chapter, chapter_links, target_lines, lines_before, chapter_text,
      added_sections, remaining, scenario_index, depth_returned, depth_runs, last_run>>

verify_vars ==
    <<repos, max_workers, future_map, work_queue, running, futures, yielded, results>>

vars ==
    <<hub_vars, entry, classified, intents, rec_keywords, build_vars, main_vars, deepen_vars,
      verify_vars, pc>>

----------------------------------------------------------------------------
(* Python str primitives                                                   *)

\* The characters of the model with their code points: space, the ASCII
\* punctuation the tables use, digits, and the two letter cases.
\* The grave accent (code point 96), which a TLA+ string cannot spell.
Backtick == "grave"

Punctuation ==
    << <<" ", 32>>, <<"!", 33>>, <<"#", 35>>, <<"'", 39>>, <<"(", 40>>, <<")", 41>>,
       <<"*", 42>>, <<"-", 45>>, <<".", 46>>, <<"/", 47>>, <<":", 58>>, <<"<", 60>>,
       <<"=", 61>>, <<">", 62>>, <<"[", 91>>, <<"]", 93>>, <<Backtick, 96>>, <<"|", 124>> >>
Digits == <<"0", "1", "2", "3", "4", "5", "6", "7", "8", "9">>
Uppercase ==
    <<"A", "B", "C", "D", "E", "F", "G", "H", "I", "J", "K", "L", "M",
      "N", "O", "P", "Q", "R", "S", "T", "U", "V", "W", "X", "Y", "Z">>
Lowercase ==
    <<"a", "b", "c", "d", "e", "f", "g", "h", "i", "j", "k", "l", "m",
      "n", "o", "p", "q", "r", "s", "t", "u", "v", "w", "x", "y", "z">>

Chars ==
    {Punctuation[i][1] : i \in DOMAIN Punctuation}
    \cup {Digits[i] : i \in DOMAIN Digits}
    \cup {Uppercase[i] : i \in DOMAIN Uppercase}
    \cup {Lowercase[i] : i \in DOMAIN Lowercase}

\* ord(c): the code point of a character ('0' is 48, 'A' is 65, 'a' is 97).
ord ==
    [c \in Chars |->
        IF \E i \in DOMAIN Digits : Digits[i] = c
        THEN 47 + (CHOOSE i \in DOMAIN Digits : Digits[i] = c)
        ELSE IF \E i \in DOMAIN Uppercase : Uppercase[i] = c
        THEN 64 + (CHOOSE i \in DOMAIN Uppercase : Uppercase[i] = c)
        ELSE IF \E i \in DOMAIN Lowercase : Lowercase[i] = c
        THEN 96 + (CHOOSE i \in DOMAIN Lowercase : Lowercase[i] = c)
        ELSE Punctuation[CHOOSE i \in DOMAIN Punctuation : Punctuation[i][1] = c][2]]

\* chr(n) for the code point of a lowercase letter.
chr(n) == Lowercase[n - 96]

\* str.lower() on one ASCII character: A..Z (65..90) map to a..z (97..122).
lower_char(c) == IF ord[c] >= 65 /\ ord[c] <= 90 THEN chr(ord[c] + 32) ELSE c

\* The list of the values f[1], ..., f[n], each computed once.
listed(f) == SubSeq(f, 1, Len(f))

\* str.lower()
lower(s) == listed([i \in 1..Len(s) |-> lower_char(s[i])])

\* `term in text` for two str values: term occurs as a contiguous substring.
contains(term, text) ==
    \/ term = <<>>
    \/ \E i \in 1..(Len(text) - Len(term) + 1) :
           text[i] = term[1] /\ SubSeq(text, i, i + Len(term) - 1) = term

\* a < b for two str values: lexicographic by code point.
RECURSIVE str_less(_, _)
str_less(a, b) ==
    IF b = <<>> THEN FALSE
    ELSE IF a = <<>> THEN TRUE
    ELSE IF Head(a) = Head(b) THEN str_less(Tail(a), Tail(b))
    ELSE ord[Head(a)] < ord[Head(b)]

\* `x in xs` for a list or tuple xs.
member(x, xs) == \E i \in DOMAIN xs : xs[i] = x

Min(a, b) == IF a <= b THEN a ELSE b

----------------------------------------------------------------------------
(* score_record_for_hub                                                    *)

\* f"{record['title']} {record['summary']}".lower()
record_text(record) == lower(record.title \o <<" ">> \o record.summary)

\* for term in query_terms: if term.lower() in text: score += 2
RECURSIVE query_score(_, _)
query_score(text, query_terms) ==
    IF query_terms = <<>> THEN 0
    ELSE (IF contains(lower(Head(query_terms)), text) THEN 2 ELSE 0)
         + query_score(text, Tail(query_terms))

\* for intent in intent_preferences: if intent in record["intent_signals"]: score += 2
RECURSIVE intent_score(_, _)
intent_score(intent_signals, intent_preferences) ==
    IF intent_preferences = <<>> THEN 0
    ELSE (IF member(Head(intent_preferences), intent_signals) THEN 2 ELSE 0)
         + intent_score(intent_signals, Tail(intent_preferences))

\* Mutant of operations_bonus: the bonus for production-operations is dropped.
operations_bonus_dropped(intent_signals) == 0

\* if "production-operations" in record["intent_signals"]: score += 1
operations_bonus(intent_signals) ==
    IF member("production-operations", intent_signals) THEN 1 ELSE 0

score_record_for_hub(record, query_terms, intent_preferences) ==
    query_score(record_text(record), query_terms)
    + intent_score(record.intent_signals, intent_preferences)
    + operations_bonus(record.intent_signals)

----------------------------------------------------------------------------
(* select_records_for_hub                                                  *)

\* Mutant of cluster_pool: the cluster filter is dropped.
cluster_pool_unfiltered(recs, cluster) == recs

\* Mutant of cluster_pool: an empty cluster pool falls back to every record.
cluster_pool_or_all(recs, cluster) ==
    IF SelectSeq(recs, LAMBDA r : r.cluster = cluster) = <<>>
    THEN recs
    ELSE SelectSeq(recs, LAMBDA r : r.cluster = cluster)

\* filtered = [r for r in records if r["cluster"] == cluster]
cluster_pool(recs, cluster) == SelectSeq(recs, LAMBDA r : r.cluster = cluster)

\* must_have_terms = tuple(str(x).lower() for x in hub.get("must_have_terms", ()))
RECURSIVE lower_all(_)
lower_all(terms) ==
    IF terms = <<>> THEN <<>> ELSE <<lower(Head(terms))>> \o lower_all(Tail(terms))

\* any(term in f"{r['title']} {r['summary']}".lower() for term in must_have_terms)
has_must_have(r, must_have_terms) ==
    \E i \in DOMAIN must_have_terms : contains(must_have_terms[i], record_text(r))

\* Mutant of hard_filter: the strict subset is used even when it is empty.
hard_filter_no_fallback(filtered, must_have_terms) ==
    IF must_have_terms # <<>>
    THEN SelectSeq(filtered, LAMBDA r : has_must_have(r, must_have_terms))
    ELSE filtered

\* if must_have_terms: strict = [...]; if strict: filtered = strict
hard_filter(filtered, must_have_terms) ==
    LET strict == SelectSeq(filtered, LAMBDA r : has_must_have(r, must_have_terms))
    IN  IF must_have_terms # <<>> /\ strict # <<>> THEN strict ELSE filtered

\* Mutant of sort_key: the title is compared without lowercasing.
sort_key_case_sensitive(r, query_terms, intent_preferences) ==
    <<0 - score_record_for_hub(r, query_terms, intent_preferences), r.title>>

\* The sort key (-score, title.lower()) and Python's tuple comparison on it.
sort_key(r, query_terms, intent_preferences) ==
    <<0 - score_record_for_hub(r, query_terms, intent_preferences), lower(r.title)>>

key_less(k1, k2) ==
    \/ k1[1] < k2[1]
    \/ k1[1] = k2[1] /\ str_less(k1[2], k2[2])

\* sorted(): stable, so an element goes after every element whose key is not
\* greater than its own.
RECURSIVE insert_sorted(_, _, _, _)
insert_sorted(r, acc, query_terms, intent_preferences) ==
    IF acc = <<>> THEN <<r>>
    ELSE IF key_less(sort_key(r, query_terms, intent_preferences),
                     sort_key(Head(acc), query_terms, intent_preferences))
         THEN <<r>> \o acc
         ELSE <<Head(acc)>> \o insert_sorted(r, Tail(acc), query_terms, intent_preferences)

RECURSIVE sort_from(_, _, _, _)
sort_from(acc, rest, query_terms, intent_preferences) ==
    IF rest = <<>> THEN acc
    ELSE sort_from(insert_sorted(Head(rest), acc, query_terms, intent_preferences),
                   Tail(rest), query_terms, intent_preferences)

\* ranked = sorted(filtered, key=lambda r: (-score, r["title"].lower()))
rank(filtered, query_terms, intent_preferences) ==
    sort_from(<<>>, filtered, query_terms, intent_preferences)

\* `slug in by_slug`, by_slug = {r["slug"]: r for r in ranked}
in_by_slug(slug, rnk) == \E i \in DOMAIN rnk : rnk[i].slug = slug

\* by_slug[slug]: a later record of the same slug overwrites an earlier one.
by_slug(slug, rnk) ==
    rnk[CHOOSE i \in DOMAIN rnk :
            /\ rnk[i].slug = slug
            /\ \A j \in DOMAIN rnk : rnk[j].slug = slug => j <= i]

\* `seen` always holds exactly the slugs of `ordered`.
seen_slugs(ord_list) == {ord_list[i].slug : i \in DOMAIN ord_list}

\* Mutant of place_preferred: the override list is ignored.
place_preferred_skipped(ord_list, preferred, rnk) == ord_list

\* Mutant of place_preferred: the override list is walked from its end.
RECURSIVE place_preferred_reversed(_, _, _)
place_preferred_reversed(ord_list, preferred, rnk) ==
    IF preferred = <<>> THEN ord_list
    ELSE LET rest == place_preferred_reversed(ord_list, Tail(preferred), rnk)
             slug == Head(preferred)
         IN  IF in_by_slug(slug, rnk) /\ slug \notin seen_slugs(rest)
             THEN Append(rest, by_slug(slug, rnk))
             ELSE rest

\* for slug in preferred: if slug in by_slug and slug not in seen: ordered.append(...)
RECURSIVE place_preferred(_, _, _)
place_preferred(ord_list, preferred, rnk) ==
    IF preferred = <<>> THEN ord_list
    ELSE LET slug == Head(preferred)
         IN  IF in_by_slug(slug, rnk) /\ slug \notin seen_slugs(ord_list)
             THEN place_preferred(Append(ord_list, by_slug(slug, rnk)), Tail(preferred), rnk)
             ELSE place_preferred(ord_list, Tail(preferred), rnk)

\* Mutant of append_ranked: rows already placed are appended again.
append_ranked_unchecked(ord_list, rnk) == ord_list \o rnk

\* for row in ranked: if row["slug"] in seen: continue; ordered.append(row)
RECURSIVE append_ranked(_, _)
append_ranked(ord_list, rnk) ==
    IF rnk = <<>> THEN ord_list
    ELSE IF Head(rnk).slug \in seen_slugs(ord_list)
         THEN append_ranked(ord_list, Tail(rnk))
         ELSE append_ranked(Append(ord_list, Head(rnk)), Tail(rnk))

\* Mutant of cap: the slice keeps one element too many.
cap_off_by_one(ord_list, lim) == SubSeq(ord_list, 1, Min(lim + 1, Len(ord_list)))

\* ordered[:limit] for limit >= 0
cap(ord_list, lim) == SubSeq(ord_list, 1, Min(lim, Len(ord_list)))

\* Mutant of ranked_pool: the candidates are ranked without the cluster filter.
ranked_pool_any_cluster(recs, h) ==
    rank(hard_filter(recs, lower_all(h.must_have_terms)), h.queries, h.intents)

\* The local `ranked` of select_records_for_hub.
ranked_pool(recs, h) ==
    rank(hard_filter(cluster_pool(recs, h.cluster), lower_all(h.must_have_terms)),
         h.queries, h.intents)

\* The local `ordered` of select_records_for_hub after both loops.
splice(rnk, preferred) == append_ranked(place_preferred(<<>>, preferred, rnk), rnk)

select_records_for_hub(recs, h, lim) ==
    cap(splice(ranked_pool(recs, h), h.prefer_slugs), lim)

\* The default of the limit parameter.
DefaultLimit == 12

----------------------------------------------------------------------------
(* classify_cluster                                                        *)

\* The rule table, in the order the dict literal declares its keys.
CLUSTER_RULES ==
    <<
    [cluster |-> "ai-coding-agents",
     terms |-> <<
        <<"c", "o", "d", "e", "x">>,
        <<"c", "l", "i", "n", "e">>,
        <<"r", "o", "o">>,
        <<"o", "p", "e", "n", "h", "a", "n", "d", "s">>,
        <<"s", "w", "e", "e", "p">>,
        <<"c", "o", "n", "t", "i", "n", "u", "e">>,
        <<"a", "i", "d", "e", "r">>,
        <<"a", "g", "e", "n", "t">>,
        <<"c", "o", "d", "i", "n", "g">>,
        <<"c", "l", "a", "u", "d", "e", " ", "c", "o", "d", "e">>,
        <<"g", "e", "m", "i", "n", "i", " ", "c", "l", "i">>
     >>],
    [cluster |-> "mcp-ecosystem",
     terms |-> <<
        <<"m", "c", "p">>,
        <<"m", "o", "d", "e", "l", " ", "c", "o", "n", "t", "e", "x", "t", " ", "p", "r", "o", "t", "o", "c", "o", "l">>,
        <<"f", "a", "s", "t", "m", "c", "p">>,
        <<"i", "n", "s", "p", "e", "c", "t", "o", "r">>,
        <<"r", "e", "g", "i", "s", "t", "r", "y">>,
        <<"s", "e", "r", "v", "e", "r">>,
        <<"t", "o", "o", "l">>
     >>],
    [cluster |-> "rag-and-retrieval",
     terms |-> <<
        <<"r", "a", "g">>,
        <<"r", "e", "t", "r", "i", "e", "v", "a", "l">>,
        <<"v", "e", "c", "t", "o", "r">>,
        <<"e", "m", "b", "e", "d", "d", "i", "n", "g">>,
        <<"l", "l", "a", "m", "a", "i", "n", "d", "e", "x">>,
        <<"h", "a", "y", "s", "t", "a", "c", "k">>,
        <<"c", "h", "r", "o", "m", "a">>,
        <<"l", "a", "n", "c", "e", "d", "b">>,
        <<"m", "e", "m", "0">>
     >>],
    [cluster |-> "llm-infra-serving",
     terms |-> <<
        <<"o", "l", "l", "a", "m", "a">>,
        <<"v", "l", "l", "m">>,
        <<"l", "l", "a", "m", "a", ".", "c", "p", "p">>,
        <<"l", "l", "a", "m", "a", "-", "c", "p", "p">>,
        <<"s", "e", "r", "v", "i", "n", "g">>,
        <<"i", "n", "f", "e", "r", "e", "n", "c", "e">>,
        <<"l", "i", "t", "e", "l", "l", "m">>,
        <<"l", "o", "c", "a", "l", "a", "i">>
     >>],
    [cluster |-> "ai-app-frameworks",
     terms |-> <<
        <<"n", "e", "x", "t", ".", "j", "s">>,
        <<"r", "e", "a", "c", "t">>,
        <<"c", "o", "p", "i", "l", "o", "t", "k", "i", "t">>,
        <<"v", "e", "r", "c", "e", "l", " ", "a", "i">>,
        <<"f", "l", "o", "w", "i", "s", "e">>,
        <<"d", "i", "f", "y">>,
        <<"c", "h", "a", "t">>,
        <<"u", "i">>
     >>],
    [cluster |-> "taskade-ecosystem",
     terms |-> <<
        <<"t", "a", "s", "k", "a", "d", "e">>,
        <<"g", "e", "n", "e", "s", "i", "s">>,
        <<"w", "o", "r", "k", "s", "p", "a", "c", "e", " ", "d", "n", "a">>,
        <<"l", "i", "v", "i", "n", "g", " ", "d", "n", "a">>,
        <<"t", "a", "s", "k", "a", "d", "e", " ", "m", "c", "p">>,
        <<"t", "a", "s", "k", "a", "d", "e", " ", "a", "i">>,
        <<"t", "a", "s", "k", "a", "d", "e", " ", "a", "u", "t", "o", "m", "a", "t", "i", "o", "n", "s">>
     >>],
    [cluster |-> "data-and-storage",
     terms |-> <<
        <<"d", "a", "t", "a", "b", "a", "s", "e">>,
        <<"p", "o", "s", "t", "g", "r", "e", "s">>,
        <<"c", "l", "i", "c", "k", "h", "o", "u", "s", "e">>,
        <<"s", "u", "p", "a", "b", "a", "s", "e">>,
        <<"m", "e", "i", "l", "i", "s", "e", "a", "r", "c", "h">>,
        <<"k", "n", "o", "w", "l", "e", "d", "g", "e">>,
        <<"s", "t", "o", "r", "a", "g", "e">>
     >>],
    [cluster |-> "systems-and-internals",
     terms |-> <<
        <<"i", "n", "t", "e", "r", "n", "a", "l", "s">>,
        <<"f", "i", "b", "e", "r">>,
        <<"o", "p", "e", "r", "a", "t", "o", "r", "s">>,
        <<"r", "u", "n", "t", "i", "m", "e">>,
        <<"a", "r", "c", "h", "i", "t", "e", "c", "t", "u", "r", "e">>,
        <<"p", "r", "o", "t", "o", "c", "o", "l">>,
        <<"p", "l", "a", "n", "n", "e", "r">>
     >>]
    >>

\* " ".join(parts)
RECURSIVE join(_)
join(parts) ==
    IF parts = <<>> THEN <<>>
    ELSE IF Len(parts) = 1 THEN Head(parts)
    ELSE Head(parts) \o <<" ">> \o join(Tail(parts))

\* text = " ".join([slug.lower(), title.lower(), summary.lower(), " ".join(keywords)])
classify_text(slug, title, summary, keywords) ==
    join(<<lower(slug), lower(title), lower(summary), join(keywords)>>)

taskade == <<"t", "a", "s", "k", "a", "d", "e">>
genesis == <<"g", "e", "n", "e", "s", "i", "s">>

\* Mutant of is_taskade_text: only the first anchor term is tested.
is_taskade_text_first_anchor(text) == contains(taskade, text)

\* if "taskade" in text or "genesis" in text
is_taskade_text(text) == contains(taskade, text) \/ contains(genesis, text)

\* Mutant of rule_score: only the first term of a rule is counted.
rule_score_first_term(terms, text) ==
    IF terms # <<>> /\ contains(terms[1], text) THEN 1 ELSE 0

\* score = sum(1 for term in terms if term in text)
rule_score(terms, text) == Cardinality({i \in DOMAIN terms : contains(terms[i], text)})

\* Mutant of best_rule: a rule that equals the best score replaces the best.
RECURSIVE best_rule_last_max(_, _, _, _)
best_rule_last_max(best_cluster, best_score, rules, text) ==
    IF rules = <<>> THEN best_cluster
    ELSE LET score == rule_score(Head(rules).terms, text)
         IN  IF score >= best_score /\ score > 0
             THEN best_rule_last_max(Head(rules).cluster, score, Tail(rules), text)
             ELSE best_rule_last_max(best_cluster, best_score, Tail(rules), text)

\* for cluster, terms in CLUSTER_RULES.items(): if score > best_score: ...
RECURSIVE best_rule(_, _, _, _)
best_rule(best_cluster, best_score, rules, text) ==
    IF rules = <<>> THEN best_cluster
    ELSE LET score == rule_score(Head(rules).terms, text)
         IN  IF score > best_score
             THEN best_rule(Head(rules).cluster, score, Tail(rules), text)
             ELSE best_rule(best_cluster, best_score, Tail(rules), text)

\* Mutant of default_cluster: the label is "general".
default_cluster_general == "general"

\* best_cluster = "general-software"
default_cluster == "general-software"

\* The rules other than the taskade-ecosystem rule, in declaration order.
other_rules == SelectSeq(CLUSTER_RULES, LAMBDA r : r.cluster # "taskade-ecosystem")

\* Mutant of classify_cluster: without an anchor term only the rules other than
\* the taskade-ecosystem rule are scored.
classify_cluster_other_rules(slug, title, summary, keywords) ==
    LET text == classify_text(slug, title, summary, keywords)
    IN  IF is_taskade_text(text)
        THEN "taskade-ecosystem"
        ELSE best_rule(default_cluster, 0, other_rules, text)

classify_cluster(slug, title, summary, keywords) ==
    LET text == classify_text(slug, title, summary, keywords)
    IN  IF is_taskade_text(text)
        THEN "taskade-ecosystem"
        ELSE best_rule(default_cluster, 0, CLUSTER_RULES, text)

----------------------------------------------------------------------------
(* infer_intent_signals                                                    *)

beginner_tokens ==
    << <<"g", "e", "t", "t", "i", "n", "g", " ", "s", "t", "a", "r", "t", "e", "d">>,
       <<"f", "i", "r", "s", "t">>,
       <<"i", "n", "t", "r", "o">>,
       <<"b", "e", "g", "i", "n", "n", "e", "r">> >>

production_tokens ==
    << <<"p", "r", "o", "d", "u", "c", "t", "i", "o", "n">>,
       <<"d", "e", "p", "l", "o", "y">>,
       <<"o", "p", "e", "r", "a", "t", "i", "o", "n", "s">>,
       <<"s", "c", "a", "l", "i", "n", "g">>,
       <<"g", "o", "v", "e", "r", "n", "a", "n", "c", "e">> >>

architecture_tokens ==
    << <<"a", "r", "c", "h", "i", "t", "e", "c", "t", "u", "r", "e">>,
       <<"i", "n", "t", "e", "r", "n", "a", "l", "s">>,
       <<"d", "e", "e", "p", " ", "d", "i", "v", "e">>,
       <<"d", "e", "s", "i", "g", "n">> >>

selection_tokens ==
    << <<"c", "o", "m", "p", "a", "r", "e">>,
       <<"s", "e", "l", "e", "c", "t", "i", "o", "n">>,
       <<"c", "a", "t", "a", "l", "o", "g">>,
       <<"a", "w", "e", "s", "o", "m", "e">> >>

\* Mutant of any_in: only the first token of a rule is tested.
any_in_first_token(tokens, text) == contains(tokens[1], text)

\* any(token in text for token in tokens)
any_in(tokens, text) == \E i \in DOMAIN tokens : contains(tokens[i], text)

\* Mutant of or_general_learning: an empty list is returned as it is.
or_nothing(found) == found

\* if not intents: intents.append("general-learning")
or_general_learning(found) == IF found = <<>> THEN <<"general-learning">> ELSE found

\* Mutant of first_five: the cap is four.
first_four(found) == SubSeq(found, 1, Min(4, Len(found)))

\* intents[:5]
first_five(found) == SubSeq(found, 1, Min(5, Len(found)))

\* Mutant of accumulated_intents: "mcp-integration" is given to a text that
\* mentions mcp, whatever the cluster.
accumulated_intents_mcp_by_text(title, summary, cluster) ==
    LET text == lower(title) \o <<" ">> \o lower(summary)
        found ==
            (IF any_in(beginner_tokens, text) THEN <<"beginner-onboarding">> ELSE <<>>)
            \o (IF any_in(production_tokens, text) THEN <<"production-operations">> ELSE <<>>)
            \o (IF any_in(architecture_tokens, text) THEN <<"architecture-deep-dive">> ELSE <<>>)
            \o (IF any_in(selection_tokens, text) THEN <<"tool-selection">> ELSE <<>>)
            \o (IF contains(<<"m", "c", "p">>, text) THEN <<"mcp-integration">> ELSE <<>>)
            \o (IF cluster = "ai-coding-agents" THEN <<"agentic-coding">> ELSE <<>>)
            \o (IF cluster = "rag-and-retrieval" THEN <<"rag-implementation">> ELSE <<>>)
    IN  or_general_learning(found)

\* The local `intents` of infer_intent_signals when it reaches its return.
accumulated_intents(title, summary, cluster) ==
    LET text == lower(title) \o <<" ">> \o lower(summary)
        found ==
            (IF any_in(beginner_tokens, text) THEN <<"beginner-onboarding">> ELSE <<>>)
            \o (IF any_in(production_tokens, text) THEN <<"production-operations">> ELSE <<>>)
            \o (IF any_in(architecture_tokens, text) THEN <<"architecture-deep-dive">> ELSE <<>>)
            \o (IF any_in(selection_tokens, text) THEN <<"tool-selection">> ELSE <<>>)
            \o (IF cluster = "mcp-ecosystem" THEN <<"mcp-integration">> ELSE <<>>)
            \o (IF cluster = "ai-coding-agents" THEN <<"agentic-coding">> ELSE <<>>)
            \o (IF cluster = "rag-and-retrieval" THEN <<"rag-implementation">> ELSE <<>>)
    IN  or_general_learning(found)

\* infer_intent_signals(title, summary, cluster): return intents[:5]
infer_intent_signals(title, summary, cluster) ==
    first_five(accumulated_intents(title, summary, cluster))

----------------------------------------------------------------------------
(* extract_keywords                                                        *)

COMMON_STOPWORDS ==
    { <<"a">>,
      <<"a", "n">>,
      <<"a", "n", "d">>,
      <<"t", "h", "e">>,
      <<"o", "f">>,
      <<"f", "o", "r">>,
      <<"t", "o">>,
      <<"i", "n">>,
      <<"o", "n">>,
      <<"w", "i", "t", "h">>,
      <<"b", "y">>,
      <<"f", "r", "o", "m">>,
      <<"h", "o", "w">>,
      <<"y", "o", "u", "r">>,
      <<"y", "o", "u">>,
      <<"g", "u", "i", "d", "e">>,
      <<"t", "u", "t", "o", "r", "i", "a", "l">>,
      <<"u", "s", "i", "n", "g">>,
      <<"u", "s", "e">>,
      <<"l", "e", "a", "r", "n">>,
      <<"b", "u", "i", "l", "d">>,
      <<"g", "u", "i", "d", "e">>,
      <<"d", "e", "e", "p">>,
      <<"d", "i", "v", "e">>,
      <<"c", "o", "v", "e", "r", "i", "n", "g">>,
      <<"p", "r", "o", "d", "u", "c", "t", "i", "o", "n">>,
      <<"p", "l", "a", "t", "f", "o", "r", "m">>,
      <<"s", "y", "s", "t", "e", "m">>,
      <<"s", "y", "s", "t", "e", "m", "s">>,
      <<"p", "r", "o", "j", "e", "c", "t">>,
      <<"p", "r", "a", "c", "t", "i", "c", "a", "l">>,
      <<"a", "c", "r", "o", "s", "s">>,
      <<"i", "n", "t", "o">>,
      <<"f", "r", "o", "m">>,
      <<"t", "h", "r", "o", "u", "g", "h">>,
      <<"a", "b", "o", "u", "t">>,
      <<"t", "h", "i", "s">>,
      <<"t", "h", "a", "t">>,
      <<"t", "h", "e", "i", "r">>,
      <<"i", "t", "s">>,
      <<"o", "u", "r">>,
      <<"y", "o", "u", "r">>,
      <<"t", "h", "e", "s", "e">>,
      <<"t", "h", "o", "s", "e">>,
      <<"i", "n", "c", "l", "u", "d", "i", "n", "g">> }

\* The set literal of hosting words that extract_keywords drops.
HOSTING_WORDS ==
    { <<"g", "i", "t", "h", "u", "b">>,
      <<"c", "o", "m">>,
      <<"j", "o", "h", "n", "x", "i", "e">>,
      <<"m", "a", "i", "n">>,
      <<"t", "r", "e", "e">>,
      <<"b", "l", "o", "b">>,
      <<"d", "o", "c", "s">>,
      <<"r", "e", "p", "o">> }

http == <<"h", "t", "t", "p">>
www == <<"w", "w", "w">>

\* s.startswith(prefix)
startswith(s, prefix) == Len(s) >= Len(prefix) /\ SubSeq(s, 1, Len(prefix)) = prefix

\* A character that [a-z0-9] matches.
is_token_char(c) ==
    \/ \E i \in DOMAIN Lowercase : Lowercase[i] = c
    \/ \E i \in DOMAIN Digits : Digits[i] = c

\* re.findall(r"[a-z0-9]+", blob[start - 1:]): the leftmost run of token
\* characters at or after position `start`, taken as long as it goes, then the
\* matches after it.
RECURSIVE findall_tokens(_, _)
findall_tokens(blob, start) ==
    IF \A i \in start..Len(blob) : ~is_token_char(blob[i]) THEN <<>>
    ELSE LET first == CHOOSE i \in start..Len(blob) :
                          /\ is_token_char(blob[i])
                          /\ \A k \in start..(i - 1) : ~is_token_char(blob[k])
             last == CHOOSE j \in first..Len(blob) :
                         /\ \A k \in first..j : is_token_char(blob[k])
                         /\ j = Len(blob) \/ ~is_token_char(blob[j + 1])
         IN  <<SubSeq(blob, first, last)>> \o findall_tokens(blob, last + 1)

\* t.isdigit()
isdigit(t) == t # <<>> /\ \A i \in DOMAIN t : \E d \in DOMAIN Digits : Digits[d] = t[i]

\* Mutant of is_keyword: stopwords are kept.
is_keyword_with_stopwords(t) ==
    /\ ~(Len(t) < 3)
    /\ ~isdigit(t)
    /\ ~(startswith(t, http) \/ startswith(t, www))
    /\ t \notin HOSTING_WORDS

\* The five `continue` tests of the loop that do not depend on `seen`.
is_keyword(t) ==
    /\ ~(Len(t) < 3)
    /\ ~isdigit(t)
    /\ t \notin COMMON_STOPWORDS
    /\ ~(startswith(t, http) \/ startswith(t, www))
    /\ t \notin HOSTING_WORDS

\* The loop over tokens: `kept` is the list under construction, whose elements
\* are the set `seen`.
RECURSIVE collect_keywords(_, _)
collect_keywords(tokens, kept) ==
    IF tokens = <<>> THEN kept
    ELSE IF is_keyword(Head(tokens)) /\ ~member(Head(tokens), kept)
    THEN collect_keywords(Tail(tokens), Append(kept, Head(tokens)))
    ELSE collect_keywords(Tail(tokens), kept)

\* Mutant of first_18: the list is returned whole.
first_all(kept) == kept

\* keywords[:18]
first_18(kept) == SubSeq(kept, 1, Min(18, Len(kept)))

extract_keywords(slug, title, summary) ==
    LET blob == lower(slug \o <<" ">> \o title \o <<" ">> \o summary)
        tokens == findall_tokens(blob, 1)
    IN  first_18(collect_keywords(tokens, <<>>))

----------------------------------------------------------------------------
(* best_summary and its helpers. A markdown text is the list of its lines  *)
(* (markdown.splitlines()); the only whitespace of the alphabet is " ".    *)

\* The elements of s at the positions of `keep`, in order.
pick(s, keep) ==
    LET marked == SelectSeq([i \in 1..Len(s) |-> <<s[i], i \in keep>>], LAMBDA m : m[2])
    IN  listed([k \in 1..Len(marked) |-> marked[k][1]])

\* s.lstrip()
lstrip(s) ==
    IF \A i \in DOMAIN s : s[i] = " " THEN <<>>
    ELSE SubSeq(s, CHOOSE i \in DOMAIN s : s[i] # " " /\ \A k \in 1..(i - 1) : s[k] = " ", Len(s))

\* s.rstrip(c); c is " " for s.rstrip()
rstrip(s, c) ==
    IF \A i \in DOMAIN s : s[i] = c THEN <<>>
    ELSE SubSeq(s, 1, CHOOSE i \in DOMAIN s : s[i] # c /\ \A k \in (i + 1)..Len(s) : s[k] = c)

\* s.strip()
strip(s) == lstrip(rstrip(s, " "))

\* The first line that starts with `marker`, without the marker and stripped;
\* "" when there is none.
first_marked(lines, marker) ==
    IF \A i \in DOMAIN lines : ~startswith(lines[i], marker) THEN <<>>
    ELSE LET i == CHOOSE n \in DOMAIN lines :
                      /\ startswith(lines[n], marker)
                      /\ \A k \in 1..(n - 1) : ~startswith(lines[k], marker)
         IN  strip(SubSeq(lines[i], 3, Len(lines[i])))

\* first_heading(markdown)
first_heading(lines) == first_marked(lines, <<"#", " ">>)

\* first_quote(markdown)
first_quote(lines) == first_marked(lines, <<">", " ">>)

\* re.sub(r"\s+", " ", text).strip()
normalize_whitespace(text) ==
    strip(pick(text, {i \in DOMAIN text : ~(text[i] = " " /\ i > 1 /\ text[i - 1] = " ")}))

\* Where a match of  opn [^cls]* cls  that starts at position i ends; 0 when
\* there is no match at i.
group_end(s, i, opn, cls) ==
    IF i \in DOMAIN s /\ s[i] = opn /\ \E j \in (i + 1)..Len(s) : s[j] = cls
    THEN CHOOSE j \in (i + 1)..Len(s) : s[j] = cls /\ \A k \in (i + 1)..(j - 1) : s[k] # cls
    ELSE 0

\* <[^>]+>
tag_end(s, i) ==
    LET e == group_end(s, i, "<", ">") IN IF e > i + 1 THEN e ELSE 0

\* !\[[^\]]*\]\([^)]*\)
image_end(s, i) ==
    IF i \in DOMAIN s /\ s[i] = "!" /\ group_end(s, i + 1, "[", "]") # 0
    THEN group_end(s, group_end(s, i + 1, "[", "]") + 1, "(", ")")
    ELSE 0

\* \[\!\[[^\]]*\]\([^)]*\)\]\([^)]*\)
badge_end(s, i) ==
    IF i \in DOMAIN s /\ s[i] = "[" /\ image_end(s, i + 1) # 0
       /\ image_end(s, i + 1) + 1 \in DOMAIN s /\ s[image_end(s, i + 1) + 1] = "]"
    THEN group_end(s, image_end(s, i + 1) + 2, "(", ")")
    ELSE 0

\* \[([^\]]+)\]\([^)]*\): where the label ends (its "]"); 0 when no match at i.
link_label_end(s, i) ==
    LET e == group_end(s, i, "[", "]")
    IN  IF e > i + 1 /\ group_end(s, e + 1, "(", ")") # 0 THEN e ELSE 0

\* re.sub(r"<[^>]+>", " ", s)
RECURSIVE sub_tags(_)
sub_tags(s) ==
    IF \A i \in DOMAIN s : tag_end(s, i) = 0 THEN s
    ELSE LET i == CHOOSE n \in DOMAIN s : tag_end(s, n) # 0 /\ \A k \in 1..(n - 1) : tag_end(s, k) = 0
         IN  SubSeq(s, 1, i - 1) \o <<" ">> \o sub_tags(SubSeq(s, tag_end(s, i) + 1, Len(s)))

\* re.sub(r"\[\!\[[^\]]*\]\([^)]*\)\]\([^)]*\)", " ", s)
RECURSIVE sub_badges(_)
sub_badges(s) ==
    IF \A i \in DOMAIN s : badge_end(s, i) = 0 THEN s
    ELSE LET i == CHOOSE n \in DOMAIN s : badge_end(s, n) # 0 /\ \A k \in 1..(n - 1) : badge_end(s, k) = 0
         IN  SubSeq(s, 1, i - 1) \o <<" ">> \o sub_badges(SubSeq(s, badge_end(s, i) + 1, Len(s)))

\* re.sub(r"!\[[^\]]*\]\([^)]*\)", " ", s)
RECURSIVE sub_images(_)
sub_images(s) ==
    IF \A i \in DOMAIN s : image_end(s, i) = 0 THEN s
    ELSE LET i == CHOOSE n \in DOMAIN s : image_end(s, n) # 0 /\ \A k \in 1..(n - 1) : image_end(s, k) = 0
         IN  SubSeq(s, 1, i - 1) \o <<" ">> \o sub_images(SubSeq(s, image_end(s, i) + 1, Len(s)))

\* re.sub(r"\[([^\]]+)\]\([^)]*\)", r"\1", s)
RECURSIVE sub_links(_)
sub_links(s) ==
    IF \A i \in DOMAIN s : link_label_end(s, i) = 0 THEN s
    ELSE LET i == CHOOSE n \in DOMAIN s :
                      link_label_end(s, n) # 0 /\ \A k \in 1..(n - 1) : link_label_end(s, k) = 0
             e == link_label_end(s, i)
         IN  SubSeq(s, 1, i - 1) \o SubSeq(s, i + 1, e - 1)
             \o sub_links(SubSeq(s, group_end(s, e + 1, "(", ")") + 1, Len(s)))

\* s.replace(c, "") for a character c
remove_char(s, c) == pick(s, {i \in DOMAIN s : s[i] # c})

project_colon == <<"p", "r", "o", "j", "e", "c", "t", ":">>

\* if cleaned.lower().startswith("project:"): cleaned = cleaned.split(":", 1)[1].strip()
drop_project_prefix(s) ==
    IF startswith(lower(s), project_colon)
    THEN strip(SubSeq(s, Len(project_colon) + 1, Len(s)))
    ELSE s

\* clean_summary_text(text)
clean_summary_text(text) ==
    LET unmarked == sub_links(sub_images(sub_badges(sub_tags(strip(text)))))
        cleaned == normalize_whitespace(remove_char(remove_char(unmarked, Backtick), "*"))
    IN  strip(rstrip(drop_project_prefix(cleaned), ":"))

SUMMARY_NOISE_PATTERNS ==
    << <<"i", "m", "p", "o", "r", "t", "a", "n", "t", " ", "n", "o", "t", "i", "c", "e">>,
       <<"p", "r", "o", "j", "e", "c", "t", ":">>,
       <<"l", "a", "t", "e", "s", "t", " ", "r", "e", "l", "e", "a", "s", "e">>,
       <<"w", "h", "a", "t", "'", "s", " ", "n", "e", "w">>,
       <<"d", "e", "p", "r", "e", "c", "a", "t", "e", "d">>,
       <<"s", "u", "n", "s", "e", "t">> >>

img_src == <<"i", "m", "g", " ", "s", "r", "c", "=">>
badge_open == <<"[", "!">>
img_tag == <<"<", "i", "m", "g">>

\* is_noise_summary(text)
is_noise_summary(text) ==
    LET lowered == lower(clean_summary_text(text))
    IN  \/ lowered = <<>>
        \/ startswith(lowered, http)
        \/ contains(img_src, lowered)
        \/ startswith(lowered, badge_open)
        \/ \E i \in DOMAIN SUMMARY_NOISE_PATTERNS : contains(SUMMARY_NOISE_PATTERNS[i], lowered)

fence == <<Backtick, Backtick, Backtick>>

\* stripped.startswith(("#", ">", "-", "|", "```"))
is_block_line(stripped) ==
    \E m \in {<<"#">>, <<">">>, <<"-">>, <<"|">>, fence} : startswith(stripped, m)

\* The loop of first_paragraph over the lines that are left, with its locals
\* in_fence and paragraph_lines; `break` ends the recursion.
RECURSIVE paragraph_lines_of(_, _, _)
paragraph_lines_of(lines, in_fence, paragraph_lines) ==
    IF lines = <<>> THEN paragraph_lines
    ELSE LET stripped == strip(rstrip(Head(lines), " "))
         IN  IF startswith(stripped, fence)
             THEN paragraph_lines_of(Tail(lines), ~in_fence, paragraph_lines)
             ELSE IF in_fence
             THEN paragraph_lines_of(Tail(lines), in_fence, paragraph_lines)
             ELSE IF stripped = <<>> \/ is_block_line(stripped)
             THEN IF paragraph_lines # <<>> THEN paragraph_lines
                  ELSE paragraph_lines_of(Tail(lines), in_fence, paragraph_lines)
             ELSE IF startswith(stripped, <<"!">>)
             THEN paragraph_lines_of(Tail(lines), in_fence, paragraph_lines)
             ELSE IF contains(img_tag, lower(stripped)) \/ startswith(stripped, <<"<">>)
             THEN paragraph_lines_of(Tail(lines), in_fence, paragraph_lines)
             ELSE paragraph_lines_of(Tail(lines), in_fence, Append(paragraph_lines, stripped))

\* first_paragraph(markdown)
first_paragraph(lines) == normalize_whitespace(join(paragraph_lines_of(lines, FALSE, <<>>)))

\* quote = clean_summary_text(normalize_whitespace(first_quote(markdown)))
quote_candidate(lines) == clean_summary_text(normalize_whitespace(first_quote(lines)))

\* paragraph = clean_summary_text(first_paragraph(markdown))
paragraph_candidate(lines) == clean_summary_text(first_paragraph(lines))

\* Mutant of best_summary: a non-empty quote is returned whether noisy or not.
best_summary_any_quote(lines) ==
    IF quote_candidate(lines) # <<>> THEN quote_candidate(lines)
    ELSE paragraph_candidate(lines)

\* Mutant of best_summary: the last resort is the paragraph, not the quote.
best_summary_paragraph_last(lines) ==
    LET q == quote_candidate(lines)
        p == paragraph_candidate(lines)
    IN  IF q # <<>> /\ ~is_noise_summary(q) THEN q
        ELSE IF p # <<>> /\ ~is_noise_summary(p) THEN p
        ELSE p

\* best_summary(markdown)
best_summary(lines) ==
    LET q == quote_candidate(lines)
        p == paragraph_candidate(lines)
    IN  IF q # <<>> /\ ~is_noise_summary(q) THEN q
        ELSE IF p # <<>> /\ ~is_noise_summary(p) THEN p
        ELSE IF q # <<>> THEN q
        ELSE p

----------------------------------------------------------------------------
(* build_records: the fields of one record                                 *)

is_letter(c) == ord[c] \in (65..90) \cup (97..122)

\* str.upper() on one ASCII character
upper_char(c) == IF ord[c] >= 97 /\ ord[c] <= 122 THEN Uppercase[ord[c] - 96] ELSE c

\* s.replace("-", " ")
dashes_to_spaces(s) == listed([i \in 1..Len(s) |-> IF s[i] = "-" THEN " " ELSE s[i]])

\* str.title(): a letter after a non-letter is uppercased, a letter after a
\* letter is lowercased.
title_case(s) ==
    [i \in 1..Len(s) |->
        IF i > 1 /\ is_letter(s[i - 1]) THEN lower_char(s[i]) ELSE upper_char(s[i])]

\* Mutant of record_title: the heading is the title even when it is empty.
record_title_heading_only(slug, lines) == first_heading(lines)

\* title = first_heading(body) or tdir.name.replace("-", " ").title()
record_title(slug, lines) ==
    IF first_heading(lines) # <<>> THEN first_heading(lines)
    ELSE title_case(dashes_to_spaces(slug))

walkthrough_of == <<"D", "e", "e", "p", " ", "t", "e", "c", "h", "n", "i", "c", "a", "l", " ", "w", "a", "l", "k", "t", "h", "r", "o", "u", "g", "h", " ", "o", "f", " ">>

\* f"Deep technical walkthrough of {title}."
placeholder(title) == walkthrough_of \o title \o <<".">>

\* Mutant of record_summary: the summary is left as best_summary returned it.
record_summary_as_found(slug, lines) == best_summary(lines)

\* summary = best_summary(body); if not summary: summary = placeholder
record_summary(slug, lines) ==
    IF best_summary(lines) = <<>> THEN placeholder(record_title(slug, lines))
    ELSE best_summary(lines)

----------------------------------------------------------------------------
(* main: build_records, then the hub loop of write_query_hub_markdown      *)

QUERY_HUBS ==
    <<
    [id |-> "open-source-coding-agents",
     cluster |-> "ai-coding-agents",
     intents |-> <<"agentic-coding", "production-operations">>,
     must_have_terms |->
         <<>>,
     prefer_slugs |->
         << <<"c", "l", "i", "n", "e", "-", "t", "u", "t", "o", "r", "i", "a", "l">>,
            <<"r", "o", "o", "-", "c", "o", "d", "e", "-", "t", "u", "t", "o", "r", "i", "a",
              "l">>,
            <<"o", "p", "e", "n", "c", "o", "d", "e", "-", "t", "u", "t", "o", "r", "i", "a",
              "l">>,
            <<"c", "o", "d", "e", "x", "-", "c", "l", "i", "-", "t", "u", "t", "o", "r", "i",
              "a", "l">>,
            <<"c", "o", "n", "t", "i", "n", "u", "e", "-", "t", "u", "t", "o", "r", "i", "a",
              "l">>,
            <<"o", "p", "e", "n", "h", "a", "n", "d", "s", "-", "t", "u", "t", "o", "r", "i",
              "a", "l">>,
            <<"s", "w", "e", "e", "p", "-", "t", "u", "t", "o", "r", "i", "a", "l">>,
            <<"t", "a", "b", "b", "y", "-", "t", "u", "t", "o", "r", "i", "a", "l">>,
            <<"s", "t", "a", "g", "e", "w", "i", "s", "e", "-", "t", "u", "t", "o", "r", "i",
              "a", "l">>,
            <<"d", "a", "y", "t", "o", "n", "a", "-", "t", "u", "t", "o", "r", "i", "a", "l">> >>,
     queries |->
         << <<"b", "e", "s", "t", " ", "o", "p", "e", "n", "-", "s", "o", "u", "r", "c", "e",
              " ", "c", "o", "d", "i", "n", "g", " ", "a", "g", "e", "n", "t">>,
            <<"o", "p", "e", "n", "-", "s", "o", "u", "r", "c", "e", " ", "a", "i", " ", "c",
              "o", "d", "i", "n", "g", " ", "a", "s", "s", "i", "s", "t", "a", "n", "t">>,
            <<"t", "e", "r", "m", "i", "n", "a", "l", " ", "c", "o", "d", "i", "n", "g", " ",
              "a", "g", "e", "n", "t", " ", "w", "o", "r", "k", "f", "l", "o", "w">> >>],
    [id |-> "mcp-servers-and-sdks",
     cluster |-> "mcp-ecosystem",
     intents |-> <<"mcp-integration", "production-operations">>,
     must_have_terms |->
         << <<"m", "c", "p">>,
            <<"m", "o", "d", "e", "l", " ", "c", "o", "n", "t", "e", "x", "t", " ", "p", "r",
              "o", "t", "o", "c", "o", "l">> >>,
     prefer_slugs |->
         << <<"m", "c", "p", "-", "p", "y", "t", "h", "o", "n", "-", "s", "d", "k", "-", "t",
              "u", "t", "o", "r", "i", "a", "l">>,
            <<"f", "a", "s", "t", "m", "c", "p", "-", "t", "u", "t", "o", "r", "i", "a", "l">>,
            <<"m", "c", "p", "-", "s", "e", "r", "v", "e", "r", "s", "-", "t", "u", "t", "o",
              "r", "i", "a", "l">>,
            <<"m", "c", "p", "-", "t", "y", "p", "e", "s", "c", "r", "i", "p", "t", "-", "s",
              "d", "k", "-", "t", "u", "t", "o", "r", "i", "a", "l">>,
            <<"m", "c", "p", "-", "g", "o", "-", "s", "d", "k", "-", "t", "u", "t", "o", "r",
              "i", "a", "l">>,
            <<"m", "c", "p", "-", "r", "u", "s", "t", "-", "s", "d", "k", "-", "t", "u", "t",
              "o", "r", "i", "a", "l">>,
            <<"m", "c", "p", "-", "j", "a", "v", "a", "-", "s", "d", "k", "-", "t", "u", "t",
              "o", "r", "i", "a", "l">>,
            <<"m", "c", "p", "-", "c", "s", "h", "a", "r", "p", "-", "s", "d", "k", "-", "t",
              "u", "t", "o", "r", "i", "a", "l">>,
            <<"m", "c", "p", "-", "r", "e", "g", "i", "s", "t", "r", "y", "-", "t", "u", "t",
              "o", "r", "i", "a", "l">>,
            <<"m", "c", "p", "-", "i", "n", "s", "p", "e", "c", "t", "o", "r", "-", "t", "u",
              "t", "o", "r", "i", "a", "l">> >>,
     queries |->
         << <<"b", "e", "s", "t", " ", "m", "c", "p", " ", "s", "e", "r", "v", "e", "r", "s">>,
            <<"h", "o", "w", " ", "t", "o", " ", "b", "u", "i", "l", "d", " ", "m", "c", "p",
              " ", "s", "e", "r", "v", "e", "r">>,
            <<"m", "o", "d", "e", "l", " ", "c", "o", "n", "t", "e", "x", "t", " ", "p", "r",
              "o", "t", "o", "c", "o", "l", " ", "s", "d", "k", " ", "t", "u", "t", "o", "r",
              "i", "a", "l">> >>],
    [id |-> "rag-and-retrieval-systems",
     cluster |-> "rag-and-retrieval",
     intents |-> <<"rag-implementation", "production-operations">>,
     must_have_terms |->
         << <<"r", "a", "g">>,
            <<"r", "e", "t", "r", "i", "e", "v", "a", "l">>,
            <<"v", "e", "c", "t", "o", "r">>,
            <<"e", "m", "b", "e", "d", "d", "i", "n", "g">> >>,
     prefer_slugs |->
         << <<"l", "l", "a", "m", "a", "i", "n", "d", "e", "x", "-", "t", "u", "t", "o", "r",
              "i", "a", "l">>,
            <<"h", "a", "y", "s", "t", "a", "c", "k", "-", "t", "u", "t", "o", "r", "i", "a",
              "l">>,
            <<"r", "a", "g", "f", "l", "o", "w", "-", "t", "u", "t", "o", "r", "i", "a", "l">>,
            <<"c", "h", "r", "o", "m", "a", "-", "t", "u", "t", "o", "r", "i", "a", "l">>,
            <<"l", "a", "n", "c", "e", "d", "b", "-", "t", "u", "t", "o", "r", "i", "a", "l">>,
            <<"q", "u", "i", "v", "r", "-", "t", "u", "t", "o", "r", "i", "a", "l">>,
            <<"m", "e", "m", "0", "-", "t", "u", "t", "o", "r", "i", "a", "l">> >>,
     queries |->
         << <<"h", "o", "w", " ", "t", "o", " ", "b", "u", "i", "l", "d", " ", "r", "a", "g",
              " ", "p", "i", "p", "e", "l", "i", "n", "e">>,
            <<"r", "a", "g", " ", "f", "r", "a", "m", "e", "w", "o", "r", "k", " ", "c", "o",
              "m", "p", "a", "r", "i", "s", "o", "n">>,
            <<"v", "e", "c", "t", "o", "r", " ", "d", "a", "t", "a", "b", "a", "s", "e", " ",
              "t", "u", "t", "o", "r", "i", "a", "l", " ", "f", "o", "r", " ", "a", "i">> >>],
    [id |-> "llm-infrastructure-serving",
     cluster |-> "llm-infra-serving",
     intents |-> <<"production-operations">>,
     must_have_terms |->
         << <<"i", "n", "f", "e", "r", "e", "n", "c", "e">>,
            <<"s", "e", "r", "v">>,
            <<"o", "l", "l", "a", "m", "a">>,
            <<"v", "l", "l", "m">>,
            <<"l", "i", "t", "e", "l", "l", "m">>,
            <<"l", "l", "a", "m", "a", ".", "c", "p", "p">>,
            <<"l", "o", "c", "a", "l", "a", "i">> >>,
     prefer_slugs |->
         << <<"o", "l", "l", "a", "m", "a", "-", "t", "u", "t", "o", "r", "i", "a", "l">>,
            <<"v", "l", "l", "m", "-", "t", "u", "t", "o", "r", "i", "a", "l">>,
            <<"l", "i", "t", "e", "l", "l", "m", "-", "t", "u", "t", "o", "r", "i", "a", "l">>,
            <<"l", "l", "a", "m", "a", "-", "c", "p", "p", "-", "t", "u", "t", "o", "r", "i",
              "a", "l">>,
            <<"l", "o", "c", "a", "l", "a", "i", "-", "t", "u", "t", "o", "r", "i", "a", "l">>,
            <<"b", "e", "n", "t", "o", "m", "l", "-", "t", "u", "t", "o", "r", "i", "a", "l">> >>,
     queries |->
         << <<"s", "e", "r", "v", "e", " ", "l", "l", "m", " ", "i", "n", " ", "p", "r", "o",
              "d", "u", "c", "t", "i", "o", "n">>,
            <<"v", "l", "l", "m", " ", "v", "s", " ", "o", "l", "l", "a", "m", "a", " ", "v",
              "s", " ", "l", "i", "t", "e", "l", "l", "m">>,
            <<"s", "e", "l", "f", "-", "h", "o", "s", "t", "e", "d", " ", "l", "l", "m", " ",
              "i", "n", "f", "r", "a", "s", "t", "r", "u", "c", "t", "u", "r", "e">> >>],
    [id |-> "ai-app-frameworks",
     cluster |-> "ai-app-frameworks",
     intents |-> <<"beginner-onboarding", "production-operations">>,
     must_have_terms |->
         << <<"a", "p", "p">>,
            <<"f", "r", "a", "m", "e", "w", "o", "r", "k">>,
            <<"w", "o", "r", "k", "f", "l", "o", "w">>,
            <<"c", "h", "a", "t">>,
            <<"n", "e", "x", "t", ".", "j", "s">>,
            <<"r", "e", "a", "c", "t">>,
            <<"c", "o", "p", "i", "l", "o", "t">>,
            <<"d", "i", "f", "y">>,
            <<"f", "l", "o", "w", "i", "s", "e">>,
            <<"v", "e", "r", "c", "e", "l", " ", "a", "i">> >>,
     prefer_slugs |->
         << <<"v", "e", "r", "c", "e", "l", "-", "a", "i", "-", "t", "u", "t", "o", "r", "i",
              "a", "l">>,
            <<"c", "o", "p", "i", "l", "o", "t", "k", "i", "t", "-", "t", "u", "t", "o", "r",
              "i", "a", "l">>,
            <<"l", "o", "b", "e", "c", "h", "a", "t", "-", "a", "i", "-", "p", "l", "a", "t",
              "f", "o", "r", "m">>,
            <<"f", "l", "o", "w", "i", "s", "e", "-", "l", "l", "m", "-", "o", "r", "c", "h",
              "e", "s", "t", "r", "a", "t", "i", "o", "n">>,
            <<"d", "i", "f", "y", "-", "p", "l", "a", "t", "f", "o", "r", "m", "-", "d", "e",
              "e", "p", "-", "d", "i", "v", "e">>,
            <<"o", "p", "e", "n", "-", "w", "e", "b", "u", "i", "-", "t", "u", "t", "o", "r",
              "i", "a", "l">>,
            <<"c", "h", "a", "t", "b", "o", "x", "-", "t", "u", "t", "o", "r", "i", "a", "l">> >>,
     queries |->
         << <<"b", "u", "i", "l", "d", " ", "a", "i", " ", "a", "p", "p", " ", "w", "i", "t",
              "h", " ", "n", "e", "x", "t", "j", "s">>,
            <<"o", "p", "e", "n", "-", "s", "o", "u", "r", "c", "e", " ", "a", "i", " ", "a",
              "p", "p", " ", "f", "r", "a", "m", "e", "w", "o", "r", "k">>,
            <<"a", "i", " ", "w", "o", "r", "k", "f", "l", "o", "w", " ", "b", "u", "i", "l",
              "d", "e", "r", " ", "t", "u", "t", "o", "r", "i", "a", "l">> >>],
    [id |-> "taskade-ai-genesis-workflows",
     cluster |-> "taskade-ecosystem",
     intents |-> <<"beginner-onboarding", "mcp-integration", "production-operations">>,
     must_have_terms |->
         << <<"t", "a", "s", "k", "a", "d", "e">>,
            <<"g", "e", "n", "e", "s", "i", "s">> >>,
     prefer_slugs |->
         << <<"t", "a", "s", "k", "a", "d", "e", "-", "t", "u", "t", "o", "r", "i", "a", "l">>,
            <<"t", "a", "s", "k", "a", "d", "e", "-", "d", "o", "c", "s", "-", "t", "u", "t",
              "o", "r", "i", "a", "l">>,
            <<"t", "a", "s", "k", "a", "d", "e", "-", "m", "c", "p", "-", "t", "u", "t", "o",
              "r", "i", "a", "l">>,
            <<"t", "a", "s", "k", "a", "d", "e", "-", "a", "w", "e", "s", "o", "m", "e", "-",
              "v", "i", "b", "e", "-", "c", "o", "d", "i", "n", "g", "-", "t", "u", "t", "o",
              "r", "i", "a", "l">> >>,
     queries |->
         << <<"t", "a", "s", "k", "a", "d", "e", " ", "a", "i", " ", "t", "u", "t", "o", "r",
              "i", "a", "l">>,
            <<"t", "a", "s", "k", "a", "d", "e", " ", "g", "e", "n", "e", "s", "i", "s", " ",
              "a", "p", "p", " ", "b", "u", "i", "l", "d", "e", "r">>,
            <<"t", "a", "s", "k", "a", "d", "e", " ", "d", "o", "c", "s">>,
            <<"t", "a", "s", "k", "a", "d", "e", " ", "a", "p", "i", " ", "d", "o", "c", "s">>,
            <<"t", "a", "s", "k", "a", "d", "e", " ", "h", "e", "l", "p", " ", "c", "e", "n",
              "t", "e", "r">>,
            <<"t", "a", "s", "k", "a", "d", "e", " ", "w", "o", "r", "k", "s", "p", "a", "c",
              "e", " ", "d", "n", "a">>,
            <<"t", "a", "s", "k", "a", "d", "e", " ", "m", "c", "p", " ", "s", "e", "t", "u",
              "p">>,
            <<"t", "a", "s", "k", "a", "d", "e", " ", "a", "u", "t", "o", "m", "a", "t", "i",
              "o", "n", " ", "a", "g", "e", "n", "t", "s">> >>]
    >>

\* A directory sorts before another by its name: key=lambda p: p.name
RECURSIVE insert_dir(_, _)
insert_dir(d, acc) ==
    IF acc = <<>> THEN <<d>>
    ELSE IF str_less(d.slug, Head(acc).slug) THEN <<d>> \o acc
    ELSE <<Head(acc)>> \o insert_dir(d, Tail(acc))

\* sorted(dirs, key=lambda p: p.name), a stable insertion sort
RECURSIVE sorted_dirs(_, _)
sorted_dirs(acc, rest) ==
    IF rest = <<>> THEN acc ELSE sorted_dirs(insert_dir(Head(rest), acc), Tail(rest))

\* Mutant of tutorial_dirs: the directories come in the order iterdir lists them.
tutorial_dirs_unsorted(dir_listing) == SelectSeq(dir_listing, LAMBDA d : d.has_index)

\* tutorial_dirs(root): the directories that hold an index.md, by name.
tutorial_dirs(dir_listing) ==
    SelectSeq(sorted_dirs(<<>>, dir_listing), LAMBDA d : d.has_index)

\* The dict that build_records appends, from the values of its fields.
record_dict(slug, title, summary, keywords, cluster) ==
    [slug |-> slug, title |-> title, summary |-> summary, keywords |-> keywords,
     cluster |-> cluster, intent_signals |-> infer_intent_signals(title, summary, cluster)]

\* cluster = classify_cluster(slug, title, summary, keywords)
record_with_keywords(slug, title, summary, keywords) ==
    record_dict(slug, title, summary, keywords,
                classify_cluster(slug, title, summary, keywords))

\* keywords = extract_keywords(slug, title, summary)
record_with_summary(slug, title, summary) ==
    record_with_keywords(slug, title, summary, extract_keywords(slug, title, summary))

\* The dict that build_records appends for one directory.
build_record(d) ==
    record_with_summary(d.slug, record_title(d.slug, d.body), record_summary(d.slug, d.body))

\* The dict of every directory of `dirs`, as a list of (directory, dict) pairs.
RECURSIVE built_of(_)
built_of(dirs) ==
    IF dirs = {} THEN <<>>
    ELSE LET d == CHOOSE x \in dirs : TRUE
         IN  <<<<d, build_record(d)>>>> \o built_of(dirs \ {d})

record_in(built, d) == built[CHOOSE i \in DOMAIN built : built[i][1] = d][2]

\* for tutorial_dir in tutorial_dirs(root): ... records.append({...})
RECURSIVE append_records(_, _, _)
append_records(acc, built, dirs) ==
    IF dirs = <<>> THEN acc
    ELSE append_records(Append(acc, record_in(built, Head(dirs))), built, Tail(dirs))

\* The loop of build_records over tutorial_dirs(root), with `built` the dict
\* of each directory.
build_records_from(built, dir_listing) ==
    append_records(<<>>, built, tutorial_dirs(dir_listing))

\* build_records(root), for the order in which iterdir lists the directories.
build_records(dir_listing) ==
    build_records_from(built_of({dir_listing[i] : i \in DOMAIN dir_listing}), dir_listing)

\* [r["slug"] for r in selected]
slugs_of(rows) == listed([i \in 1..Len(rows) |-> rows[i].slug])

\* Mutant of records_after_select: the list is sorted in place by the hub's key.
records_sorted_in_place(recs, h) == rank(recs, h.queries, h.intents)

\* The list `records` after select_records_for_hub(records, hub) returned: the
\* call reads it through a comprehension and sorted(), which build new lists.
records_after_select(recs, h) == recs

\* coverage of write_query_hub_markdown for a whole hub table.
coverage_of(recs, table) ==
    [i \in 1..Len(table) |-> slugs_of(select_records_for_hub(recs, table[i], DefaultLimit))]

----------------------------------------------------------------------------
(* scripts/deepen_v2_chapters.py: add_depth_to_chapter. The text of a      *)
(* chapter is a list of "x" (a character that is not white space), " ",    *)
(* "nl" (a line feed) and "marker" (the DEPTH_MARKER comment as a whole).  *)

DEPTH_MARKER == "marker"

\* len(text.splitlines())
line_count(chapter) ==
    Cardinality({i \in DOMAIN chapter : chapter[i] = "nl"})
    + (IF chapter # <<>> /\ chapter[Len(chapter)] # "nl" THEN 1 ELSE 0)

\* original.rstrip()
rstrip_text(chapter) ==
    LET inked == {i \in DOMAIN chapter : chapter[i] \notin {" ", "nl"}}
    IN  IF inked = {} THEN <<>>
        ELSE SubSeq(chapter, 1, CHOOSE i \in inked : \A j \in inked : j <= i)

\* DEPTH_MARKER in text
has_marker(chapter) == \E i \in DOMAIN chapter : chapter[i] = DEPTH_MARKER

\* The lines of the blocks: a line of text, a blank line, the marker line.
TextLine == <<"x">>
BlankLine == <<>>
MarkerLine == <<DEPTH_MARKER>>

\* sep.join(parts)
RECURSIVE join_with(_, _)
join_with(sep, parts) ==
    IF parts = <<>> THEN <<>>
    ELSE IF Len(parts) = 1 THEN parts[1]
    ELSE LET half == Len(parts) \div 2
         IN  join_with(sep, SubSeq(parts, 1, half)) \o sep
             \o join_with(sep, SubSeq(parts, half + 1, Len(parts)))

\* "\n".join(f"- [{label}]({url})" for label, url in links) or the default line
link_lines(link_list) ==
    IF link_list = <<>> THEN <<TextLine>> ELSE [i \in DOMAIN link_list |-> TextLine]

\* n lines of text
text_lines(n) == [i \in 1..n |-> TextLine]

\* A "###" heading, a blank line, n lines of text and a blank line.
titled(n) == <<TextLine, BlankLine>> \o text_lines(n) \o <<BlankLine>>

\* The f-string of build_base_block from "## Depth Expansion Playbook" to
\* "### Source Alignment" and its blank line: the marker, the opening
\* sentence, then Strategic Context (5 lines), Architecture Decomposition (8),
\* Operator Decision Matrix (7), Failure Modes and Countermeasures (8),
\* Implementation Runbook (9) and Quality Gate Checklist (8).
BASE_BLOCK_HEAD ==
    <<TextLine, BlankLine, MarkerLine, BlankLine, TextLine, BlankLine>>
    \o titled(5) \o titled(8) \o titled(7) \o titled(8) \o titled(9) \o titled(8)
    \o <<TextLine, BlankLine>>

\* From the blank line before "### Cross-Tutorial Connection Map" to the one
\* after it.
BASE_BLOCK_MIDDLE == <<BlankLine, TextLine, BlankLine>>

\* From the blank line before "### Advanced Practice Exercises" to the end:
\* Advanced Practice Exercises (5 lines) and Review Questions (5).
BASE_BLOCK_TAIL == <<BlankLine>> \o titled(5) \o <<TextLine, BlankLine>> \o text_lines(5)

\* build_base_block(...)
build_base_block(source_links, related_links) ==
    join_with(<<"nl">>,
              BASE_BLOCK_HEAD \o link_lines(source_links) \o BASE_BLOCK_MIDDLE
              \o link_lines(related_links) \o BASE_BLOCK_TAIL)

\* build_scenario_block(...), the same lines for every i
build_scenario_block(i) ==
    join_with(<<"nl">>, <<TextLine, BlankLine>> \o text_lines(9))

\* The text of a block of added_sections.
block_text(kind, link_lists) ==
    IF kind = "base" THEN build_base_block(link_lists.source, link_lists.related)
    ELSE build_scenario_block(1)

\* text + "\n\n" + "\n\n".join(added_sections)
with_sections(chapter, sections, link_lists) ==
    chapter \o <<"nl", "nl">>
    \o join_with(<<"nl", "nl">>, [i \in DOMAIN sections |-> block_text(sections[i], link_lists)])

\* provisional = text + "\n\n" + "\n\n".join(added_sections) if added_sections else text
provisional(chapter, sections, link_lists) ==
    IF sections # <<>> THEN with_sections(chapter, sections, link_lists) ELSE chapter

\* if DEPTH_MARKER not in text: added_sections.append(build_base_block(...))
base_sections(chapter) == IF has_marker(chapter) THEN <<>> ELSE <<"base">>

\* Mutant of lines_left: one line fewer is asked for.
lines_left_short(target, chapter, sections, link_lists) ==
    target - 1 - line_count(provisional(chapter, sections, link_lists))

\* remaining = target_lines - line_count(provisional)
lines_left(target, chapter, sections, link_lists) ==
    target - line_count(provisional(chapter, sections, link_lists))

\* updated = text + "\n\n" + "\n\n".join(added_sections) + "\n"
updated_text(chapter, sections, link_lists) ==
    with_sections(chapter, sections, link_lists) \o <<"nl">>

----------------------------------------------------------------------------
(* scripts/verify_tutorial_sources.py: verify_repositories and its pool of *)
(* worker threads. A repository is named by its place in the sorted list   *)
(* main passes.                                                            *)

\* The dict fetch_repo_metadata returns for a 200 response.
verified_entry(repo) == [repo |-> repo, verified |-> TRUE, reason |-> "none"]

\* The dict fetch_repo_metadata returns from its HTTPError and URLError handlers.
unverified_entry(repo) == [repo |-> repo, verified |-> FALSE, reason |-> "http-or-network"]

\* The dict verify_repositories builds in its `except Exception` handler.
unhandled_entry(repo) == [repo |-> repo, verified |-> FALSE, reason |-> "unhandled"]

\* How a call of fetch_repo_metadata(repo, ...) can end: with one of its two
\* dicts, or with an exception none of its handlers takes.
fetch_outcomes(repo) ==
    { [raised |-> FALSE, value |-> verified_entry(repo)],
      [raised |-> FALSE, value |-> unverified_entry(repo)],
      [raised |-> TRUE, value |-> "exception"] }

\* Mutant of may_start: a task starts whether or not a worker is free.
may_start_always(busy, workers) == TRUE

\* A worker thread of the pool is free to take a task.
may_start(busy, workers) == Cardinality(busy) < workers

\* try: results[repo] = future.result() / except Exception: results[repo] = {...}
collected(found, repo, future) ==
    (repo :> (IF future.raised THEN unhandled_entry(repo) ELSE future.value)) @@ found

----------------------------------------------------------------------------
(* Inputs                                                                  *)

MaxRecords == 3
MaxLimit == 2

SlugNames == << <<"a">>, <<"b">>, <<"c">>, <<"d">>, <<"e">> >>

\* The slugs of the catalog, in the ascending order build_records lists them.
Slugs == SubSeq(SlugNames, 1, Min(MaxRecords, Len(SlugNames)))

Beta == <<"B", "e", "t", "a">>
alpha == <<"a", "l", "p", "h", "a">>
notes == <<"n", "o", "t", "e", "s">>
MCP_Server == <<"M", "C", "P", " ", "S", "e", "r", "v", "e", "r">>

\* What a record may hold besides its slug.
Profiles ==
    { [title |-> t, summary |-> notes, cluster |-> "mcp-ecosystem",
       intent_signals |-> <<"general-learning">>] : t \in {Beta, alpha} }
    \cup
    { [title |-> t, summary |-> MCP_Server, cluster |-> "mcp-ecosystem",
       intent_signals |-> <<"production-operations", "mcp-integration">>] : t \in {Beta, alpha} }
    \cup
    { [title |-> Beta, summary |-> MCP_Server, cluster |-> "rag-and-retrieval",
       intent_signals |-> <<"production-operations", "rag-implementation">>] }

Clusters == {p.cluster : p \in Profiles}

RecordOf(slug, p) ==
    [slug |-> slug, title |-> p.title, summary |-> p.summary,
     cluster |-> p.cluster, intent_signals |-> p.intent_signals]

\* The elements of a set of positions in increasing order.
RECURSIVE ascending(_)
ascending(S) ==
    IF S = {} THEN <<>>
    ELSE LET m == CHOOSE x \in S : \A y \in S : x <= y
         IN  <<m>> \o ascending(S \ {m})

\* Every list of records with pairwise distinct slugs, in ascending slug order.
RecordLists ==
    UNION { { LET idx == ascending(I)
              IN  [k \in 1..Len(idx) |-> RecordOf(Slugs[idx[k]], p[idx[k]])]
              : p \in [I -> Profiles] }
            : I \in SUBSET (DOMAIN Slugs) }

MustHaveChoices == { <<>>, << <<"m", "c", "p">> >> }

PreferChoices ==
    { <<>>,
      << <<"b">>, <<"a">> >>,
      << <<"c">>, <<"c">> >> }

\* (queries, intents) of a hub
ScoringChoices ==
    { [queries |-> << <<"s", "e", "r", "v", "e", "r">>,
                      <<"b", "e", "t", "a", " ", "m", "c", "p">> >>,
       intents |-> <<"mcp-integration", "production-operations">>],
      [queries |-> << <<"a", "l", "p", "h", "a">> >>,
       intents |-> <<>>] }

Hubs ==
    { [cluster |-> c, must_have_terms |-> m, prefer_slugs |-> p,
       queries |-> s.queries, intents |-> s.intents]
      : c \in Clusters, m \in MustHaveChoices, p \in PreferChoices, s \in ScoringChoices }

Limits == (0..MaxLimit) \cup {DefaultLimit}

\* The values the variables of the hub selection hold while it is not running.
NoHub ==
    [cluster |-> "none", must_have_terms |-> <<>>, prefer_slugs |-> <<>>,
     queries |-> <<>>, intents |-> <<>>]

\* The value of `entry` while the classifier is not running.
NoEntry == [slug |-> <<>>, title |-> <<>>, summary |-> <<>>, keywords |-> <<>>]

EntrySlugs ==
    { <<"t", "a", "s", "k", "a", "d", "e", "-", "m", "c", "p">>,
      <<"M", "C", "P", "-", "t", "o", "o", "l">>,
      <<"n", "o", "t", "e", "s">> }

EntryTitles ==
    { <<"T", "a", "s", "k", "a", "d", "e", " ", "G", "e", "n", "e", "s", "i", "s">>,
      <<"M", "C", "P", " ", "S", "e", "r", "v", "e", "r", " ", "T", "o", "o", "l">>,
      <<"A", "g", "e", "n", "t", " ", "C", "o", "d", "i", "n", "g">>,
      <<"N", "o", "t", "e", "s">> }

EntrySummaries ==
    { <<"G", "e", "n", "e", "s", "i", "s", " ", "o", "f", " ", "r", "a", "g", " ",
        "r", "e", "t", "r", "i", "e", "v", "a", "l", " ", "v", "e", "c", "t", "o", "r">>,
      <<"m", "c", "p", " ", "s", "e", "r", "v", "e", "r", " ",
        "r", "e", "g", "i", "s", "t", "r", "y", " ",
        "i", "n", "s", "p", "e", "c", "t", "o", "r">>,
      <<"L", "i", "v", "i", "n", "g", " ", "D", "N", "A">>,
      <<"p", "l", "a", "i", "n">> }

EntryKeywords ==
    { <<>>,
      << taskade >>,
      << <<"m", "c", "p">>, <<"s", "e", "r", "v", "e", "r">> >> }

Entries ==
    { [slug |-> sl, title |-> t, summary |-> sm, keywords |-> k]
      : sl \in EntrySlugs, t \in EntryTitles, sm \in EntrySummaries, k \in EntryKeywords }

\* Titles, summaries and clusters handed to infer_intent_signals.
IntentTitles ==
    { <<"G", "e", "t", "t", "i", "n", "g", " ", "S", "t", "a", "r", "t", "e", "d", " ", "w",
        "i", "t", "h", " ", "M", "C", "P">>,
      <<"P", "r", "o", "d", "u", "c", "t", "i", "o", "n", " ", "D", "e", "s", "i", "g", "n",
        " ", "C", "a", "t", "a", "l", "o", "g">>,
      <<"F", "i", "r", "s", "t", " ", "A", "w", "e", "s", "o", "m", "e", " ", "D", "e", "p",
        "l", "o", "y", " ", "I", "n", "t", "e", "r", "n", "a", "l", "s">>,
      <<"N", "o", "t", "e", "s">> }

IntentSummaries ==
    { <<"p", "l", "a", "i", "n">>,
      <<"C", "o", "m", "p", "a", "r", "e", " ", "s", "c", "a", "l", "i", "n", "g", " ", "o",
        "f", " ", "a", " ", "d", "e", "e", "p", " ", "d", "i", "v", "e", " ", "i", "n", "t",
        "r", "o">>,
      <<"B", "e", "g", "i", "n", "n", "e", "r", " ", "g", "u", "i", "d", "e">>,
      <<"D", "a", "t", "a", " ", "g", "o", "v", "e", "r", "n", "a", "n", "c", "e">>,
      <<"A", "r", "c", "h", "i", "t", "e", "c", "t", "u", "r", "e">>,
      <<"A", " ", "s", "e", "l", "e", "c", "t", "i", "o", "n">> }

IntentClusters ==
    {"mcp-ecosystem", "ai-coding-agents", "rag-and-retrieval", "taskade-ecosystem",
     "general-software"}

IntentEntries ==
    { [title |-> t, summary |-> sm, cluster |-> c]
      : t \in IntentTitles, sm \in IntentSummaries, c \in IntentClusters }

\* Slugs, titles and summaries handed to extract_keywords.
KeywordSlugs ==
    { <<"m", "c", "p", "-", "t", "o", "o", "l">>,
      <<"d", "o", "c", "s", "-", "2", "0", "2", "4", "-", "x", "1">>,
      <<"n", "o", "t", "e", "s">> }

KeywordTitles ==
    { <<"M", "C", "P", " ", "T", "o", "o", "l", ":", " ", "T", "h", "e", " ", "G", "u", "i",
        "d", "e">>,
      <<"H", "T", "T", "P", "S", " ", "w", "w", "w", "2", " ", "S", "e", "r", "v", "i", "n",
        "g", " ", "4", "2">>,
      <<"N", "o", "t", "e", "s">>,
      <<"V", "e", "c", "t", "o", "r", " ", "D", "B", " ", "i", "n", " ", "G", "o">> }

KeywordSummaries ==
    { <<"p", "l", "a", "i", "n">>,
      <<"L", "e", "a", "r", "n", " ", "h", "o", "w", " ", "t", "o", " ", "b", "u", "i", "l",
        "d", " ", "a", "n", " ", "M", "C", "P", " ", "t", "o", "o", "l", " ", "w", "i", "t",
        "h", " ", "m", "c", "p", " ", "s", "e", "r", "v", "e", "r", "s", " ", "a", "n", "d",
        " ", "T", "o", "o", "l", " ", "r", "e", "g", "i", "s", "t", "r", "i", "e", "s">>,
      <<"S", "e", "e", " ", "h", "t", "t", "p", "s", ":", "/", "/", "g", "i", "t", "h", "u",
        "b", ".", "c", "o", "m", "/", "j", "o", "h", "n", "x", "i", "e", "/", "a", "w", "e",
        "s", "o", "m", "e", "/", "t", "r", "e", "e", "/", "m", "a", "i", "n", "/", "d", "o",
        "c", "s", " ", "f", "o", "r", " ", "t", "h", "e", " ", "r", "e", "p", "o", " ", "b",
        "l", "o", "b">>,
      <<"A", "l", "p", "h", "a", " ", "b", "r", "a", "v", "o", " ", "c", "h", "a", "r", "l",
        "i", "e", " ", "d", "e", "l", "t", "a", " ", "e", "c", "h", "o", " ", "f", "o", "x",
        "t", "r", "o", "t", " ", "g", "o", "l", "f", " ", "h", "o", "t", "e", "l", " ", "i",
        "n", "d", "i", "a", " ", "j", "u", "l", "i", "e", "t", " ", "k", "i", "l", "o", " ",
        "l", "i", "m", "a", " ", "m", "i", "k", "e", " ", "n", "o", "v", "e", "m", "b", "e",
        "r", " ", "o", "s", "c", "a", "r", " ", "p", "a", "p", "a", " ", "q", "u", "e", "b",
        "e", "c", " ", "r", "o", "m", "e", "o", " ", "s", "i", "e", "r", "r", "a", " ", "t",
        "a", "n", "g", "o", " ", "u", "n", "i", "f", "o", "r", "m", " ", "v", "i", "c", "t",
        "o", "r">>,
      <<"T", "o", "p", " ", "1", "0", " ", "o", "f", " ", "2", "0", "2", "4", ":", " ", "a",
        "1", " ", "b", "2", "c", " ", "0", "0", "7", " ", "x", "8", "6">>,
      <<>>,
      <<"D", "e", "e", "p", " ", "D", "i", "v", "e", " ", "i", "n", "t", "o", " ", "P", "r",
        "o", "d", "u", "c", "t", "i", "o", "n", " ", "S", "y", "s", "t", "e", "m", "s">>,
      <<"T", "o", "o", "l", " ", "t", "o", "o", "l", " ", "T", "O", "O", "L", " ", "T", "o",
        "o", "l", "'", "s">>,
      <<"V", "e", "c", "t", "o", "r", " ", "E", "m", "b", "e", "d", "d", "i", "n", "g", " ",
        "R", "e", "t", "r", "i", "e", "v", "a", "l", " ", "R", "A", "G">> }

KeywordEntries ==
    { [slug |-> sl, title |-> t, summary |-> sm]
      : sl \in KeywordSlugs, t \in KeywordTitles, sm \in KeywordSummaries }

\* The bodies of index.md handed to best_summary and build_records: an optional
\* heading, a quote line and a paragraph, in two layouts.
HeadingChoices ==
    { <<>>,
      << <<"#", " ", " ">> >>,
      << <<"#", " ", "M", "C", "P", " ", "G", "u", "i", "d", "e">> >> }

QuoteChoices ==
    { <<>>,
      << <<">", " ", "L", "e", "a", "r", "n", " ", "t", "o", " ", "b", "u", "i", "l", "d", " ",
           " ", "a", "g", "e", "n", "t", "s">> >>,
      << <<">", " ", "*", "*", "I", "m", "p", "o", "r", "t", "a", "n", "t", " ", "n", "o", "t",
           "i", "c", "e", "*", "*", ":", " ", "m", "o", "v", "e", "d">> >>,
      << <<">", " ", "!", "[", "l", "o", "g", "o", "]", "(", "l", ".", "p", "n", "g", ")">> >>,
      << <<">", " ", " ", "P", "r", "o", "j", "e", "c", "t", ":", " ", "t", "h", "e", " ", "*",
           "f", "a", "s", "t", "*", " ", Backtick, "m", "c", "p", Backtick, " ", "[", "s", "e",
           "r", "v", "e", "r", "]", "(", "h", "t", "t", "p", ":", "/", "/", "x", ")", ":">> >> }

ParagraphChoices ==
    { <<>>,
      << <<"B", "u", "i", "l", "d", " ", "a", "p", "p", "s", " ", " ", "w", "i", "t", "h", " ",
           "<", "b", ">", "R", "e", "a", "c", "t", "<", "/", "b", ">", " ">>,
         <<"a", "n", "d", " ", "[", "N", "e", "x", "t", ".", "j", "s", "]", "(", "h", "t", "t",
           "p", ":", "/", "/", "n", ")", " ">> >>,
      << <<"L", "a", "t", "e", "s", "t", " ", "r", "e", "l", "e", "a", "s", "e", " ", "i", "s",
           " ", "2", ".", "0">> >>,
      << <<"[", "!", "[", "b", "]", "(", "u", ")", "]", "(", "v", ")">> >>,
      << <<"h", "t", "t", "p", "s", ":", "/", "/", "e", "x", "a", "m", "p", "l", "e", ".", "c",
           "o", "m", " ", "d", "o", "c", "s">> >> }

FencedBlock ==
    << <<Backtick, Backtick, Backtick>>,
       <<"n", "o", "t", " ", "a", " ", "s", "u", "m", "m", "a", "r", "y">>,
       <<Backtick, Backtick, Backtick>>,
       <<"<", "i", "m", "g", " ", "s", "r", "c", "=", "x", ">">>,
       <<"|", " ", "a", " ", "|", " ", "b", " ", "|">> >>

BodySlugs ==
    { <<"m", "c", "p", "-", "t", "o", "o", "l">>,
      <<"n", "o", "t", "e", "s", "-", "2", "x">> }

Bodies ==
    { h \o q \o << <<>> >> \o p \o << <<>>, <<"L", "a", "t", "e", "r", " ", "t", "e", "x", "t">> >>
      : h \in HeadingChoices, q \in QuoteChoices, p \in ParagraphChoices }
    \cup
    { h \o FencedBlock \o p \o q
      : h \in HeadingChoices, q \in QuoteChoices, p \in ParagraphChoices }

BodyEntries == { [slug |-> sl, body |-> b] : sl \in BodySlugs, b \in Bodies }

MaxDirs == 2

\* Directory names under tutorials/.
DirNames ==
    { <<"f", "a", "s", "t", "m", "c", "p", "-", "t", "u", "t", "o", "r", "i", "a", "l">>,
      <<"Z", "e", "t", "a">>,
      <<"a", "l", "p", "h", "a", "-", "1">> }

\* What a directory holds: no index.md, or an index.md with one of three bodies.
DirContents ==
    { [has_index |-> FALSE, body |-> <<>>] }
    \cup
    { [has_index |-> TRUE, body |-> b]
      : b \in { << <<"#", " ", "M", "C", "P", " ", "S", "e", "r", "v", "e", "r", " ", "G",
                       "u", "i", "d", "e">>,
                     <<">", " ", "B", "u", "i", "l", "d", " ", "a", "n", " ", "M", "C", "P",
                       " ", "s", "e", "r", "v", "e", "r", " ", "f", "o", "r", " ", "p", "r",
                       "o", "d", "u", "c", "t", "i", "o", "n">> >>,
                  << <<"#", " ", "R", "A", "G", " ", "B", "a", "s", "i", "c", "s">>,
                     <<>>,
                     <<"R", "e", "t", "r", "i", "e", "v", "a", "l", " ", "w", "i", "t", "h",
                       " ", "v", "e", "c", "t", "o", "r", " ", "e", "m", "b", "e", "d", "d",
                       "i", "n", "g">> >>,
                  << <<"#", " ", "T", "a", "s", "k", "a", "d", "e", " ", "M", "C", "P">>,
                     <<">", " ", "T", "a", "s", "k", "a", "d", "e", " ", "M", "C", "P", " ",
                       "s", "e", "t", "u", "p">> >>,
                  << <<"#", " ", "A", "i", "d", "e", "r", " ", "P", "a", "i", "r", "i", "n", "g">>,
                     <<">", " ", "P", "a", "i", "r", " ", "w", "i", "t", "h", " ", "a", " ",
                       "c", "o", "d", "i", "n", "g", " ", "a", "g", "e", "n", "t">> >> } }

\* The sets of at most MaxDirs directories with distinct names.
Corpora ==
    UNION { { { [slug |-> n, has_index |-> f[n].has_index, body |-> f[n].body] : n \in N }
              : f \in [N -> DirContents] }
            : N \in {M \in SUBSET DirNames : Cardinality(M) <= MaxDirs} }

\* The orders in which Path.iterdir may list a set of directories.
Listings(dirs) ==
    {s \in [1..Cardinality(dirs) -> dirs] : \A i, j \in DOMAIN s : s[i] = s[j] => i = j}

\* A hub table whose second hub names a cluster that no rule defines.
MisspeltHubs == [QUERY_HUBS EXCEPT ![2].cluster = "mcp-ecosytem"]

HubTables == {QUERY_HUBS, MisspeltHubs}

\* The value of first_run before a run is kept.
NoRun == [listing |-> <<>>, records |-> <<>>, hub_coverage |-> <<>>]

\* Chapter files: empty, without a final line feed, with trailing blank
\* lines and spaces, of several lines, and with the marker already in them.
Chapters ==
    { <<>>,
      <<"x">>,
      <<"x", "nl">>,
      <<"nl">>,
      <<"x", "nl", "nl", " ">>,
      <<"x", "nl", "x", "nl">>,
      <<DEPTH_MARKER, "nl">>,
      <<"x", "nl", DEPTH_MARKER, "nl", "x">>,
      <<"x", "nl", "x", "nl", "x", "nl", "x", "nl">> }

\* The links extract_links found in the tutorial index.
LinkLists ==
    { [source |-> <<>>, related |-> <<>>],
      [source |-> <<"link", "link">>, related |-> <<"link">>] }

\* Values of --target-lines: met by every chapter, by some, by the base block
\* alone, and only with one or several scenario blocks.
Targets == {0, 3, 90, 100, 130}

\* How many times add_depth_to_chapter runs on the chapter.
MaxRuns == 3

\* How many repositories the tutorial indexes name.
MaxRepos == 3

\* Values of --max-workers.
MaxWorkers == 2

\* The sorted list of distinct repositories main passes.
RepoLists == {[i \in 1..n |-> i] : n \in 0..MaxRepos}

----------------------------------------------------------------------------
(* Hub selection: one call of select_records_for_hub, either directly with *)
(* a limit or from the loop body of write_query_hub_markdown.              *)

\* The record functions are not running: nothing is built yet.
BuildIdle ==
    /\ classified = "unset"
    /\ intents = <<>>
    /\ rec_keywords = <<>>
    /\ rec_title = <<>>
    /\ quote = <<>>
    /\ paragraph = <<>>
    /\ rec_summary = <<>>

\* main() is not running.
MainIdle ==
    /\ corpus = {}
    /\ listing = <<>>
    /\ hub_table = <<>>
    /\ hub_index = 0
    /\ hub_coverage = <<>>
    /\ first_run = NoRun

NoDepthRun == [chapter |-> <<>>, target |-> 0]

DeepenIdle ==
    /\ chapter_file = <<>>
    /\ first_chapter = <<>>
    /\ chapter_links = [source |-> <<>>, related |-> <<>>]
    /\ target_lines = 0
    /\ lines_before = 0
    /\ chapter_text = <<>>
    /\ added_sections = <<>>
    /\ remaining = 0
    /\ scenario_index = 1
    /\ depth_returned = <<>>
    /\ depth_runs = 0
    /\ last_run = NoDepthRun

VerifyIdle ==
    /\ repos = <<>>
    /\ max_workers = 1
    /\ future_map = <<>>
    /\ work_queue = <<>>
    /\ running = {}
    /\ futures = <<>>
    /\ yielded = <<>>
    /\ results = <<>>

\* The hub selection is not running.
HubIdle ==
    /\ records = <<>>
    /\ hub = NoHub
    /\ limit = DefaultLimit
    /\ ranked = <<>>
    /\ scores = <<>>
    /\ ordered = <<>>
    /\ selected = <<>>
    /\ coverage = <<>>
    /\ section = "none"

InitHub ==
    /\ records \in RecordLists
    /\ hub \in Hubs
    /\ limit = DefaultLimit
    /\ ranked = <<>>
    /\ scores = <<>>
    /\ ordered = <<>>
    /\ selected = <<>>
    /\ coverage = <<>>
    /\ section = "none"
    /\ entry = NoEntry
    /\ BuildIdle
    /\ MainIdle
    /\ DeepenIdle
    /\ VerifyIdle
    /\ pc = "start"

\* The locals `ranked` and `ordered` of a call of select_records_for_hub, and the
\* sort keys' scores.
Locals(rnk) ==
    /\ ranked' = rnk
    /\ scores' = [i \in DOMAIN rnk |->
                     score_record_for_hub(rnk[i], hub.queries, hub.intents)]
    /\ ordered' = splice(rnk, hub.prefer_slugs)

\* select_records_for_hub(records, hub, limit)
SelectRecordsForHub ==
    /\ pc = "start"
    /\ Locals(ranked_pool(records, hub))
    /\ \E lim \in Limits :
           /\ limit' = lim
           /\ selected' = cap(ordered', lim)
    /\ pc' = "returned"
    /\ UNCHANGED <<records, hub, coverage, section, entry, classified, intents,
                   rec_keywords, build_vars, main_vars, deepen_vars,
                   verify_vars>>

\* One iteration of `for hub in QUERY_HUBS` in write_query_hub_markdown:
\* selected = select_records_for_hub(records, hub), then coverage[hub_id] and
\* the "Recommended tutorials" lines.
WriteQueryHubMarkdown ==
    /\ pc = "start"
    /\ Locals(ranked_pool(records, hub))
    /\ limit' = DefaultLimit
    /\ selected' = select_records_for_hub(records, hub, DefaultLimit)
    /\ coverage' = [i \in DOMAIN selected' |-> selected'[i].slug]
    /\ section' = IF selected' # <<>> THEN "recommended" ELSE "no-matching-tutorials"
    /\ pc' = "written"
    /\ UNCHANGED <<records, hub, entry, classified, intents, rec_keywords, build_vars,
                   main_vars, deepen_vars,
                   verify_vars>>

NextHub == SelectRecordsForHub \/ WriteQueryHubMarkdown

SpecHub == InitHub /\ [][NextHub]_vars

----------------------------------------------------------------------------
(* Classification: one call of classify_cluster.                           *)

InitClassify ==
    /\ entry \in Entries
    /\ BuildIdle
    /\ HubIdle
    /\ MainIdle
    /\ DeepenIdle
    /\ VerifyIdle
    /\ pc = "start"

\* classify_cluster(slug, title, summary, keywords)
ClassifyCluster ==
    /\ pc = "start"
    /\ classified' = classify_cluster(entry.slug, entry.title, entry.summary, entry.keywords)
    /\ pc' = "returned"
    /\ UNCHANGED <<hub_vars, entry, intents, rec_keywords, build_vars, main_vars, deepen_vars,
                   verify_vars>>

NextClassify == ClassifyCluster

SpecClassify == InitClassify /\ [][NextClassify]_vars

----------------------------------------------------------------------------
(* Intent rules: one call of infer_intent_signals.                         *)

InitIntent ==
    /\ entry \in IntentEntries
    /\ BuildIdle
    /\ HubIdle
    /\ MainIdle
    /\ DeepenIdle
    /\ VerifyIdle
    /\ pc = "start"

\* infer_intent_signals(title, summary, cluster)
InferIntentSignals ==
    /\ pc = "start"
    /\ intents' = infer_intent_signals(entry.title, entry.summary, entry.cluster)
    /\ pc' = "returned"
    /\ UNCHANGED <<hub_vars, entry, classified, rec_keywords, build_vars, main_vars, deepen_vars,
                   verify_vars>>

NextIntent == InferIntentSignals

SpecIntent == InitIntent /\ [][NextIntent]_vars

----------------------------------------------------------------------------
(* Keywords: one call of extract_keywords.                                 *)

InitKeywords ==
    /\ entry \in KeywordEntries
    /\ BuildIdle
    /\ HubIdle
    /\ MainIdle
    /\ DeepenIdle
    /\ VerifyIdle
    /\ pc = "start"

\* extract_keywords(slug, title, summary)
ExtractKeywords ==
    /\ pc = "start"
    /\ rec_keywords' = extract_keywords(entry.slug, entry.title, entry.summary)
    /\ pc' = "returned"
    /\ UNCHANGED <<hub_vars, entry, classified, intents, build_vars, main_vars, deepen_vars,
                   verify_vars>>

NextKeywords == ExtractKeywords

SpecKeywords == InitKeywords /\ [][NextKeywords]_vars

----------------------------------------------------------------------------
(* Records: one call of best_summary, or one pass of the loop body of      *)
(* build_records, for the body of one index.md.                            *)

InitBuild ==
    /\ entry \in BodyEntries
    /\ BuildIdle
    /\ HubIdle
    /\ MainIdle
    /\ DeepenIdle
    /\ VerifyIdle
    /\ pc = "start"

\* best_summary(markdown)
BestSummary ==
    /\ pc = "start"
    /\ quote' = quote_candidate(entry.body)
    /\ paragraph' = paragraph_candidate(entry.body)
    /\ rec_summary' = best_summary(entry.body)
    /\ pc' = "returned"
    /\ UNCHANGED <<hub_vars, entry, classified, intents, rec_keywords, rec_title, main_vars, deepen_vars,
                   verify_vars>>

\* One pass of `for tdir in tutorial_dirs(root)` in build_records: title,
\* summary, keywords, cluster and intent_signals of the record.
BuildRecords ==
    /\ pc = "start"
    /\ rec_title' = record_title(entry.slug, entry.body)
    /\ quote' = quote_candidate(entry.body)
    /\ paragraph' = paragraph_candidate(entry.body)
    /\ rec_summary' = record_summary(entry.slug, entry.body)
    /\ rec_keywords' = extract_keywords(entry.slug, rec_title', rec_summary')
    /\ classified' = classify_cluster(entry.slug, rec_title', rec_summary', rec_keywords')
    /\ intents' = infer_intent_signals(rec_title', rec_summary', classified')
    /\ pc' = "built"
    /\ UNCHANGED <<hub_vars, entry, main_vars, deepen_vars,
                   verify_vars>>

NextBuild == BestSummary \/ BuildRecords

SpecBuild == InitBuild /\ [][NextBuild]_vars

----------------------------------------------------------------------------
(* Pipeline: main() runs build_records and the hub loop over one corpus,   *)
(* then a second time over the same corpus.                                *)

InitMain ==
    /\ corpus \in Corpora
    /\ hub_table \in HubTables
    /\ listing = <<>>
    /\ hub_index = 0
    /\ hub_coverage = <<>>
    /\ first_run = NoRun
    /\ entry = NoEntry
    /\ BuildIdle
    /\ HubIdle
    /\ DeepenIdle
    /\ VerifyIdle
    /\ pc = "start"

\* records = build_records(root), for some order of iterdir, with `built`
\* the dict of each directory.
BuildFrom(built) ==
    \E order \in Listings(corpus) :
        /\ listing' = order
        /\ records' = build_records_from(built, order)

BuildAll ==
    /\ pc = "start"
    /\ BuildFrom(built_of(corpus))
    /\ pc' = "main_built"
    /\ UNCHANGED <<hub, limit, ranked, scores, ordered, selected, coverage, section, entry,
                   classified, intents, rec_keywords, build_vars, corpus, hub_table,
                   hub_index, hub_coverage, first_run, deepen_vars, verify_vars>>

\* selected = select_records_for_hub(records, hub) and its coverage entry, with
\* rnk the ranked pool of hub h.
SelectFor(h, rnk) ==
    /\ hub' = h
    /\ limit' = DefaultLimit
    /\ ranked' = rnk
    /\ scores' = [i \in DOMAIN rnk |-> score_record_for_hub(rnk[i], h.queries, h.intents)]
    /\ ordered' = splice(rnk, h.prefer_slugs)
    /\ selected' = cap(ordered', DefaultLimit)
    /\ records' = records_after_select(records, h)

\* One pass of `for hub in QUERY_HUBS` in write_query_hub_markdown.
WriteHub ==
    /\ pc = "main_built"
    /\ hub_index < Len(hub_table)
    /\ SelectFor(hub_table[hub_index + 1], ranked_pool(records, hub_table[hub_index + 1]))
    /\ coverage' = slugs_of(selected')
    /\ section' = IF selected' # <<>> THEN "recommended" ELSE "no-matching-tutorials"
    /\ hub_coverage' = Append(hub_coverage, coverage')
    /\ hub_index' = hub_index + 1
    /\ pc' = IF hub_index' = Len(hub_table) THEN "main_done" ELSE "main_built"
    /\ UNCHANGED <<entry, classified, intents, rec_keywords, build_vars, corpus, listing,
                   hub_table, first_run, deepen_vars, verify_vars>>

\* A second run of main() on the same corpus and hub table.
Rerun ==
    /\ pc = "main_done"
    /\ first_run' = [listing |-> listing, records |-> records, hub_coverage |-> hub_coverage]
    /\ BuildFrom(built_of(corpus))
    /\ hub_coverage' = coverage_of(records', hub_table)
    /\ pc' = "main_rerun"
    /\ UNCHANGED <<hub, limit, ranked, scores, ordered, selected, coverage, section, entry,
                   classified, intents, rec_keywords, build_vars, corpus, hub_table,
                   hub_index, deepen_vars, verify_vars>>

NextMain == BuildAll \/ WriteHub \/ Rerun

SpecMain == InitMain /\ [][NextMain]_vars

----------------------------------------------------------------------------
(* Deepening: runs of add_depth_to_chapter on one chapter file, the target *)
(* free to change from one run to the next.                                *)

InitDeepen ==
    /\ chapter_file \in Chapters
    /\ first_chapter = chapter_file
    /\ chapter_links \in LinkLists
    /\ target_lines \in Targets
    /\ lines_before = 0
    /\ chapter_text = <<>>
    /\ added_sections = <<>>
    /\ remaining = 0
    /\ scenario_index = 1
    /\ depth_returned = <<>>
    /\ depth_runs = 1
    /\ last_run = NoDepthRun
    /\ entry = NoEntry
    /\ BuildIdle
    /\ HubIdle
    /\ MainIdle
    /\ VerifyIdle
    /\ pc = "start"

\* From the read of the file to the first computation of `remaining`; the
\* early return when the file is long enough.
ReadChapter ==
    /\ pc = "start"
    /\ lines_before' = line_count(chapter_file)
    /\ IF lines_before' >= target_lines
       THEN /\ depth_returned' = <<FALSE, lines_before', lines_before'>>
            /\ pc' = "returned"
            /\ UNCHANGED <<chapter_text, added_sections, remaining, scenario_index>>
       ELSE /\ chapter_text' = rstrip_text(chapter_file)
            /\ added_sections' = base_sections(chapter_text')
            /\ remaining' =
                   lines_left(target_lines, chapter_text', added_sections', chapter_links)
            /\ scenario_index' = 1
            /\ depth_returned' = <<>>
            /\ pc' = "scenarios"
    /\ UNCHANGED <<chapter_file, first_chapter, chapter_links, target_lines, depth_runs,
                   last_run, hub_vars, entry, classified, intents, rec_keywords, build_vars,
                   main_vars, verify_vars>>

\* One pass of `while remaining > 0`.
AddScenario ==
    /\ pc = "scenarios"
    /\ remaining > 0
    /\ added_sections' = Append(added_sections, "scenario")
    /\ remaining' = lines_left(target_lines, chapter_text, added_sections', chapter_links)
    /\ scenario_index' = scenario_index + 1
    /\ UNCHANGED <<chapter_file, first_chapter, chapter_links, target_lines, lines_before,
                   chapter_text, depth_returned, depth_runs, last_run, hub_vars, entry,
                   classified, intents, rec_keywords, build_vars, main_vars, verify_vars, pc>>

\* After the loop: chapter_path.write_text(updated) and the return.
WriteChapter ==
    /\ pc = "scenarios"
    /\ remaining <= 0
    /\ chapter_file' = updated_text(chapter_text, added_sections, chapter_links)
    /\ depth_returned' = <<TRUE, lines_before, line_count(chapter_file')>>
    /\ pc' = "returned"
    /\ UNCHANGED <<first_chapter, chapter_links, target_lines, lines_before, chapter_text,
                   added_sections, remaining, scenario_index, depth_runs, last_run, hub_vars,
                   entry, classified, intents, rec_keywords, build_vars, main_vars,
                   verify_vars>>

\* The script is run once more on the file as the last run left it.
RunAgain ==
    /\ pc = "returned"
    /\ depth_runs < MaxRuns
    /\ last_run' = [chapter |-> chapter_file, target |-> target_lines]
    /\ target_lines' \in Targets
    /\ depth_runs' = depth_runs + 1
    /\ lines_before' = 0
    /\ chapter_text' = <<>>
    /\ added_sections' = <<>>
    /\ remaining' = 0
    /\ scenario_index' = 1
    /\ depth_returned' = <<>>
    /\ pc' = "start"
    /\ UNCHANGED <<chapter_file, first_chapter, chapter_links, hub_vars, entry, classified,
                   intents, rec_keywords, build_vars, main_vars, verify_vars>>

NextDeepen == ReadChapter \/ AddScenario \/ WriteChapter \/ RunAgain

SpecDeepen == InitDeepen /\ [][NextDeepen]_vars

----------------------------------------------------------------------------
(* Verification: one call of verify_repositories. The main thread submits  *)
(* the tasks, then takes the futures as they complete; the worker threads  *)
(* of the pool take tasks from the queue and run fetch_repo_metadata.      *)

InitVerify ==
    /\ repos \in RepoLists
    /\ max_workers \in 1..MaxWorkers
    /\ future_map = <<>>
    /\ work_queue = <<>>
    /\ running = {}
    /\ futures = <<>>
    /\ yielded = <<>>
    /\ results = <<>>
    /\ entry = NoEntry
    /\ BuildIdle
    /\ HubIdle
    /\ MainIdle
    /\ DeepenIdle
    /\ pc = "start"

\* if not repos: return results
ReturnEmpty ==
    /\ pc = "start"
    /\ repos = <<>>
    /\ pc' = "returned"
    /\ UNCHANGED <<hub_vars, entry, classified, intents, rec_keywords, build_vars, main_vars,
                   deepen_vars, verify_vars>>

\* with ThreadPoolExecutor(max_workers=max_workers) as pool
OpenPool ==
    /\ pc = "start"
    /\ repos # <<>>
    /\ pc' = "submitting"
    /\ UNCHANGED <<hub_vars, entry, classified, intents, rec_keywords, build_vars, main_vars,
                   deepen_vars, verify_vars>>

\* pool.submit(fetch_repo_metadata, repo, token, timeout), for the next repo
\* of the dict comprehension
Submit ==
    /\ pc = "submitting"
    /\ LET repo == repos[Len(future_map) + 1]
       IN  /\ future_map' = Append(future_map, repo)
           /\ work_queue' = Append(work_queue, repo)
    /\ pc' = IF Len(future_map') = Len(repos) THEN "collecting" ELSE "submitting"
    /\ UNCHANGED <<hub_vars, entry, classified, intents, rec_keywords, build_vars, main_vars,
                   deepen_vars, repos, max_workers, running, futures, yielded, results>>

\* A worker thread takes the oldest task of the queue and calls fetch_repo_metadata.
StartFetch ==
    /\ work_queue # <<>>
    /\ may_start(running, max_workers)
    /\ running' = running \cup {Head(work_queue)}
    /\ work_queue' = Tail(work_queue)
    /\ UNCHANGED <<hub_vars, entry, classified, intents, rec_keywords, build_vars, main_vars,
                   deepen_vars, repos, max_workers, future_map, futures, yielded, results, pc>>

\* A call of fetch_repo_metadata ends and its future is done.
FinishFetch ==
    /\ \E repo \in running :
           /\ running' = running \ {repo}
           /\ \E outcome \in fetch_outcomes(repo) : futures' = (repo :> outcome) @@ futures
    /\ UNCHANGED <<hub_vars, entry, classified, intents, rec_keywords, build_vars, main_vars,
                   deepen_vars, repos, max_workers, future_map, work_queue, yielded, results,
                   pc>>

\* One pass of `for future in as_completed(future_map)`.
Collect ==
    /\ pc = "collecting"
    /\ \E repo \in (DOMAIN futures) \ {yielded[i] : i \in DOMAIN yielded} :
           /\ yielded' = Append(yielded, repo)
           /\ results' = collected(results, repo, futures[repo])
    /\ UNCHANGED <<hub_vars, entry, classified, intents, rec_keywords, build_vars, main_vars,
                   deepen_vars, repos, max_workers, future_map, work_queue, running, futures,
                   pc>>

\* as_completed is exhausted, the `with` block has waited for the workers,
\* return results.
ReturnResults ==
    /\ pc = "collecting"
    /\ {yielded[i] : i \in DOMAIN yielded} = {future_map[i] : i \in DOMAIN future_map}
    /\ work_queue = <<>>
    /\ running = {}
    /\ pc' = "returned"
    /\ UNCHANGED <<hub_vars, entry, classified, intents, rec_keywords, build_vars, main_vars,
                   deepen_vars, verify_vars>>

NextVerify ==
    ReturnEmpty \/ OpenPool \/ Submit \/ StartFetch \/ FinishFetch \/ Collect \/ ReturnResults

SpecVerify == InitVerify /\ [][NextVerify]_vars

----------------------------------------------------------------------------
(* Vocabulary of the properties                                            *)

Returned == pc # "start"

SlugSet(seq) == {seq[i].slug : i \in DOMAIN seq}

Count(slug, seq) == Cardinality({i \in DOMAIN seq : seq[i].slug = slug})

\* The position of a slug that occurs in seq.
Pos(slug, seq) == CHOOSE i \in DOMAIN seq : seq[i].slug = slug

Preferred(slug) == \E i \in DOMAIN hub.prefer_slugs : hub.prefer_slugs[i] = slug

\* The position at which prefer_slugs lists a slug first.
Listed(slug) ==
    CHOOSE i \in DOMAIN hub.prefer_slugs :
        /\ hub.prefer_slugs[i] = slug
        /\ \A j \in 1..(i - 1) : hub.prefer_slugs[j] # slug

InCluster(r) == r.cluster = hub.cluster

\* The records given that have the hub's cluster.
ClusterRecords == {r \in {records[i] : i \in DOMAIN records} : InCluster(r)}

Score(r) == score_record_for_hub(r, hub.queries, hub.intents)

\* A record's lowercased title+summary holds one of the hub's must-have terms.
Matches(r) ==
    \E i \in DOMAIN hub.must_have_terms :
        contains(hub.must_have_terms[i], lower(r.title \o <<" ">> \o r.summary))

----------------------------------------------------------------------------
(* Properties of the hub selection, under SpecHub                          *)

\* C1: two slugs b and a of prefer_slugs, b listed before a, both in the ranked
\* pool: each is placed exactly once in the spliced order, b before a whatever
\* their scores, and the selection keeps that: it holds both, b before a, when
\* the limit reaches a's place, and never a without b before it.
C1_OverrideBeatsScore ==
    Returned =>
        \A b \in SlugSet(ranked), a \in SlugSet(ranked) :
            (Preferred(b) /\ Preferred(a) /\ Listed(b) < Listed(a)) =>
                /\ Count(b, ordered) = 1
                /\ Count(a, ordered) = 1
                /\ Pos(b, ordered) < Pos(a, ordered)
                /\ a \in SlugSet(selected) =>
                       /\ Count(a, selected) = 1
                       /\ Count(b, selected) = 1
                       /\ Pos(b, selected) < Pos(a, selected)
                /\ limit >= Pos(a, ordered) => a \in SlugSet(selected)

\* C1 witness: prefer_slugs lists b before a, a scores strictly higher than b,
\* and the selection returned holds b before a.
C1_Witness ==
    /\ Returned
    /\ \E b \in SlugSet(selected), a \in SlugSet(selected) :
           /\ Preferred(b) /\ Preferred(a) /\ Listed(b) < Listed(a)
           /\ Score(ranked[Pos(a, ranked)]) > Score(ranked[Pos(b, ranked)])
           /\ Pos(b, selected) < Pos(a, selected)

\* C2 as stated, for a limit that cuts nothing: every prefer_slugs member whose
\* record has the hub's cluster is selected, and these members come first, in
\* configured order, before any non-preferred slug.
C2_Original ==
    (Returned /\ limit >= Len(records)) =>
        /\ \A r \in ClusterRecords : Preferred(r.slug) => r.slug \in SlugSet(selected)
        /\ \A i \in DOMAIN selected, j \in DOMAIN selected :
               (i < j /\ Preferred(selected[j].slug)) =>
                   /\ Preferred(selected[i].slug)
                   /\ Listed(selected[i].slug) < Listed(selected[j].slug)

\* C2 amended: the prefer_slugs members whose record is in the ranked pool (the
\* cluster pool after the must-have refinement) open the spliced order, in the
\* order prefer_slugs first lists them, before any non-preferred slug; the
\* selection is cut from the front of that order, so it holds the first `limit`
\* of them, and all of them when the limit is at least their number.
C2_PreferredFirst ==
    Returned =>
        LET placed == {s \in SlugSet(ranked) : Preferred(s)}
            n == Cardinality(placed)
        IN  /\ \A k \in 1..n : ordered[k].slug \in placed
            /\ \A k \in DOMAIN ordered : k > n => ~Preferred(ordered[k].slug)
            /\ \A i \in 1..n, j \in 1..n :
                   i < j => Listed(ordered[i].slug) < Listed(ordered[j].slug)
            /\ \A k \in 1..Min(n, limit) :
                   k \in DOMAIN selected /\ selected[k] = ordered[k]
            /\ \A k \in DOMAIN selected : k > n => ~Preferred(selected[k].slug)
            /\ limit >= n => placed \subseteq SlugSet(selected)

\* C2 witness: a preferred slug whose record has the hub's cluster but fails the
\* must-have refinement is left out, while another preferred slug opens the
\* selection ahead of a non-preferred one.
C2_Witness ==
    /\ Returned
    /\ \E r \in ClusterRecords : Preferred(r.slug) /\ r.slug \notin SlugSet(ranked)
    /\ Len(selected) >= 2
    /\ Preferred(selected[1].slug)
    /\ ~Preferred(selected[2].slug)

\* C3: the non-preferred slugs of a selection follow every preferred one and
\* are ordered by score descending, equal scores by lowercased title ascending.
C3_RankedTail ==
    Returned =>
        \A i \in DOMAIN selected, j \in DOMAIN selected :
            (i < j /\ ~Preferred(selected[i].slug)) =>
                /\ ~Preferred(selected[j].slug)
                /\ Score(selected[i]) >= Score(selected[j])
                /\ Score(selected[i]) = Score(selected[j]) =>
                       ~str_less(lower(selected[j].title), lower(selected[i].title))

\* C3 witness: two non-preferred records of equal score whose titles order one
\* way by code point and the other way case-insensitively, after a preferred one.
C3_Witness ==
    /\ Returned
    /\ Len(selected) = 3
    /\ Preferred(selected[1].slug)
    /\ ~Preferred(selected[2].slug)
    /\ ~Preferred(selected[3].slug)
    /\ Score(selected[2]) = Score(selected[3])
    /\ str_less(lower(selected[2].title), lower(selected[3].title))
    /\ str_less(selected[3].title, selected[2].title)

\* C4: with must-have terms of which no record of the cluster pool holds any,
\* the selection is drawn from the whole cluster pool; when some record holds
\* one, only such records are selected.
C4_HardFilterFallback ==
    (Returned /\ hub.must_have_terms # <<>>) =>
        IF \E r \in ClusterRecords : Matches(r)
        THEN /\ \A i \in DOMAIN selected : Matches(selected[i])
             /\ SlugSet(ordered) = {r.slug : r \in {x \in ClusterRecords : Matches(x)}}
        ELSE /\ SlugSet(ordered) = {r.slug : r \in ClusterRecords}
             /\ Len(selected) = Min(limit, Cardinality(ClusterRecords))

\* C4 witness: must-have terms that no record of a non-empty cluster pool
\* holds, and a non-empty selection.
C4_Witness ==
    /\ Returned
    /\ hub.must_have_terms # <<>>
    /\ ClusterRecords # {}
    /\ \A r \in ClusterRecords : ~Matches(r)
    /\ selected # <<>>

\* C5: the score of a record is 2 for each hub query that is a substring of its
\* lowercased title+summary, 2 for each hub intent among its intent_signals,
\* and 1 more when production-operations is among its intent_signals.
C5_ScoreFormula ==
    Returned =>
        \A i \in DOMAIN ranked :
            LET r == ranked[i]
                text == lower(r.title \o <<" ">> \o r.summary)
                signals == {r.intent_signals[k] : k \in DOMAIN r.intent_signals}
            IN  scores[i] =
                    2 * Cardinality({q \in DOMAIN hub.queries : contains(hub.queries[q], text)})
                    + 2 * Cardinality({p \in DOMAIN hub.intents : hub.intents[p] \in signals})
                    + (IF "production-operations" \in signals THEN 1 ELSE 0)

\* C5 witness: a record with production-operations among its intent_signals,
\* for a hub that lists that intent and has a query the record's text holds.
C5_Witness ==
    /\ Returned
    /\ \E i \in DOMAIN ranked :
           /\ member("production-operations", ranked[i].intent_signals)
           /\ member("production-operations", hub.intents)
           /\ \E q \in DOMAIN hub.queries : contains(hub.queries[q], record_text(ranked[i]))
           /\ scores[i] >= 5

\* C6: every selected record has the hub's cluster and is one of the records
\* given, also when prefer_slugs lists the slug of a record of another cluster.
C6_ClusterOnly ==
    Returned =>
        \A i \in DOMAIN selected :
            /\ selected[i].cluster = hub.cluster
            /\ \E k \in DOMAIN records : records[k] = selected[i]

\* C6 witness: prefer_slugs lists the slug of a record of another cluster, and
\* the selection is not empty.
C6_Witness ==
    /\ Returned
    /\ selected # <<>>
    /\ \E k \in DOMAIN records : Preferred(records[k].slug) /\ ~InCluster(records[k])

\* C7: a selection is no longer than the limit (12 from
\* write_query_hub_markdown) and is the first `limit` elements of the spliced
\* order.
C7_Cap ==
    Returned =>
        /\ Len(selected) <= limit
        /\ Len(selected) = Min(limit, Len(ordered))
        /\ \A k \in DOMAIN selected : selected[k] = ordered[k]
        /\ pc = "written" => (limit = 12 /\ Len(coverage) <= 12)

\* C7 witness: the spliced order is longer than a positive limit.
C7_Witness ==
    /\ Returned
    /\ limit > 0
    /\ Len(ordered) > limit
    /\ Len(selected) = limit

\* C8: no slug occurs twice in a selection.
C8_NoDuplicates ==
    Returned =>
        /\ \A i \in DOMAIN selected, j \in DOMAIN selected :
               selected[i].slug = selected[j].slug => i = j
        /\ pc = "written" =>
               \A i \in DOMAIN coverage, j \in DOMAIN coverage :
                   coverage[i] = coverage[j] => i = j

\* C8 witness: prefer_slugs repeats a slug, and that slug is selected along
\* with another record.
C8_Witness ==
    /\ Returned
    /\ \E i \in DOMAIN hub.prefer_slugs, j \in DOMAIN hub.prefer_slugs :
           /\ i # j
           /\ hub.prefer_slugs[i] = hub.prefer_slugs[j]
           /\ hub.prefer_slugs[i] \in SlugSet(selected)
    /\ Len(selected) >= 2

\* C9: when no record has the hub's cluster the call returns the empty
\* selection, and write_query_hub_markdown renders the no-match line.
C9_EmptyPool ==
    (Returned /\ ClusterRecords = {}) =>
        /\ pc \in {"returned", "written"}
        /\ selected = <<>>
        /\ pc = "written" => (coverage = <<>> /\ section = "no-matching-tutorials")

\* C9 witness: records of another cluster only, a hub with must-have terms and
\* a prefer_slugs entry naming one of those records, and the call has returned.
C9_Witness ==
    /\ pc = "written"
    /\ records # <<>>
    /\ ClusterRecords = {}
    /\ hub.must_have_terms # <<>>
    /\ \E k \in DOMAIN records : Preferred(records[k].slug)
    /\ section = "no-matching-tutorials"


----------------------------------------------------------------------------
(* Properties of the classifier, under SpecClassify                        *)

\* The slug, title, summary and keywords of the entry as one lowercased text.
CombinedText ==
    lower(entry.slug \o <<" ">> \o entry.title \o <<" ">> \o entry.summary
          \o <<" ">> \o join(entry.keywords))

\* The number of terms of a rule that the combined text holds.
TermsHeld(rule) ==
    Cardinality({i \in DOMAIN rule.terms : contains(rule.terms[i], CombinedText)})

\* C10: an entry whose combined text holds "taskade" or "genesis" is classified
\* taskade-ecosystem, however many terms of the other rules it holds.
C10_AnchorOverride ==
    (Returned /\ (contains(taskade, CombinedText) \/ contains(genesis, CombinedText))) =>
        classified = "taskade-ecosystem"

\* C10 witness: the text holds "genesis" but not "taskade", another rule has
\* more of its terms in the text than the taskade-ecosystem rule has, and the
\* entry is classified taskade-ecosystem.
C10_Witness ==
    /\ Returned
    /\ contains(genesis, CombinedText)
    /\ ~contains(taskade, CombinedText)
    /\ \E i \in DOMAIN CLUSTER_RULES, j \in DOMAIN CLUSTER_RULES :
           /\ CLUSTER_RULES[i].cluster = "taskade-ecosystem"
           /\ CLUSTER_RULES[j].cluster # "taskade-ecosystem"
           /\ TermsHeld(CLUSTER_RULES[j]) > TermsHeld(CLUSTER_RULES[i])
    /\ classified = "taskade-ecosystem"

\* The combined text holds one of the two anchor terms.
HasAnchor == contains(taskade, CombinedText) \/ contains(genesis, CombinedText)

\* The position of the taskade-ecosystem rule in the rule table.
TaskadeRule == CHOOSE i \in DOMAIN CLUSTER_RULES : CLUSTER_RULES[i].cluster = "taskade-ecosystem"

\* The labels of the rule table.
RuleClusters == {CLUSTER_RULES[i].cluster : i \in DOMAIN CLUSTER_RULES}

\* The highest number of terms any rule has in the combined text.
MaxHeld ==
    CHOOSE n \in 0..20 :
        /\ \E i \in DOMAIN CLUSTER_RULES : TermsHeld(CLUSTER_RULES[i]) = n
        /\ \A i \in DOMAIN CLUSTER_RULES : TermsHeld(CLUSTER_RULES[i]) <= n

\* The positions of the rules that reach MaxHeld.
Leaders == {i \in DOMAIN CLUSTER_RULES : TermsHeld(CLUSTER_RULES[i]) = MaxHeld}

\* C11 as stated: an entry whose combined text holds no anchor term is never
\* classified taskade-ecosystem.
C11_Original == (Returned /\ ~HasAnchor) => classified # "taskade-ecosystem"

\* C11 amended: without an anchor term every rule is scored, the
\* taskade-ecosystem rule too: the entry is classified taskade-ecosystem by
\* scoring when that rule has more of its terms in the text than every other
\* rule, and only when the text holds "workspace dna" or "living dna" and no
\* rule has more terms in the text.
C11_ScoredWithAnchorRule ==
    (Returned /\ ~HasAnchor) =>
        /\ (\A i \in DOMAIN CLUSTER_RULES :
                i # TaskadeRule =>
                    TermsHeld(CLUSTER_RULES[i]) < TermsHeld(CLUSTER_RULES[TaskadeRule]))
               => classified = "taskade-ecosystem"
        /\ classified = "taskade-ecosystem" =>
               /\ \E i \in 3..4 : contains(CLUSTER_RULES[TaskadeRule].terms[i], CombinedText)
               /\ TermsHeld(CLUSTER_RULES[TaskadeRule]) = MaxHeld

\* C11 witness: the text holds "living dna" and neither anchor term, and the
\* entry is classified taskade-ecosystem.
C11_Witness ==
    /\ Returned
    /\ ~HasAnchor
    /\ contains(<<"l", "i", "v", "i", "n", "g", " ", "d", "n", "a">>, CombinedText)
    /\ classified = "taskade-ecosystem"

\* C12: without an anchor term, when some rule has a term in the text, the
\* entry is classified by the rule with the most terms in the text, and among
\* several such rules by the one declared first.
C12_HighestCountFirstDeclared ==
    (Returned /\ ~HasAnchor /\ MaxHeld > 0) =>
        /\ \E i \in Leaders : classified = CLUSTER_RULES[i].cluster
        /\ \A i \in Leaders, j \in Leaders :
               classified = CLUSTER_RULES[j].cluster => j <= i

\* C12 witness: two rules have the same, highest, positive number of terms in a
\* text without anchor term, and the entry has the label of the earlier one.
C12_Witness ==
    /\ Returned
    /\ ~HasAnchor
    /\ MaxHeld > 0
    /\ Cardinality(Leaders) >= 2
    /\ \E i \in Leaders : classified = CLUSTER_RULES[i].cluster /\ \A j \in Leaders : i <= j

\* C13 as stated: the cluster is a label of the rule table or "general".
C13_Original == Returned => classified \in RuleClusters \cup {"general"}

\* C13 amended: the cluster is one value, a label of the rule table or the
\* default label "general-software".
C13_ClosedSet == Returned => classified \in RuleClusters \cup {"general-software"}

\* C13 witness: an entry classified with the default label, and no rule of that
\* name in the table.
C13_Witness ==
    /\ Returned
    /\ classified = "general-software"
    /\ classified \notin RuleClusters

\* C14: the entry gets the default label exactly when its text holds no anchor
\* term and no term of any rule; the call returns, and with a label of the
\* closed set.
C14_DefaultIffZero ==
    Returned =>
        /\ classified = default_cluster <=> (~HasAnchor /\ MaxHeld = 0)
        /\ classified \in RuleClusters \cup {default_cluster}
        /\ default_cluster \notin RuleClusters

\* C14 witness: a text without anchor term in which no rule has a term is
\* classified with the default label.
C14_Witness ==
    /\ Returned
    /\ ~HasAnchor
    /\ \A i \in DOMAIN CLUSTER_RULES : TermsHeld(CLUSTER_RULES[i]) = 0
    /\ classified = default_cluster

----------------------------------------------------------------------------
(* Properties of the intent rules, under SpecIntent                        *)

\* f"{title.lower()} {summary.lower()}" of the entry.
IntentText == lower(entry.title \o <<" ">> \o entry.summary)

\* The labels of the seven rules, in the order the rules are written.
IntentLabels ==
    <<"beginner-onboarding", "production-operations", "architecture-deep-dive",
      "tool-selection", "mcp-integration", "agentic-coding", "rag-implementation">>

\* The trigger of the k-th rule holds for the entry.
Fires(k) ==
    CASE k = 1 -> \E i \in DOMAIN beginner_tokens : contains(beginner_tokens[i], IntentText)
      [] k = 2 -> \E i \in DOMAIN production_tokens : contains(production_tokens[i], IntentText)
      [] k = 3 -> \E i \in DOMAIN architecture_tokens : contains(architecture_tokens[i], IntentText)
      [] k = 4 -> \E i \in DOMAIN selection_tokens : contains(selection_tokens[i], IntentText)
      [] k = 5 -> entry.cluster = "mcp-ecosystem"
      [] k = 6 -> entry.cluster = "ai-coding-agents"
      [] k = 7 -> entry.cluster = "rag-and-retrieval"

\* C15: the list infer_intent_signals returns has at least one and at most five
\* labels, and no label twice.
C15_OneToFiveDistinct ==
    Returned =>
        /\ Len(intents) >= 1
        /\ Len(intents) <= 5
        /\ \A i \in DOMAIN intents, j \in DOMAIN intents : intents[i] = intents[j] => i = j

\* C15 witness: all four text rules and a cluster rule fired, and the call
\* returned five labels.
C15_Witness == Returned /\ Len(intents) = 5

\* C16: the list holds exactly the labels of the rules whose trigger holds, in
\* the order of the rules; general-learning is in it exactly when no rule
\* fired, and is then its only label.
C16_FiredRulesInOrder ==
    Returned =>
        LET fired == ascending({k \in DOMAIN IntentLabels : Fires(k)})
        IN  /\ fired # <<>> => intents = [i \in DOMAIN fired |-> IntentLabels[fired[i]]]
            /\ fired = <<>> => intents = <<"general-learning">>
            /\ member("general-learning", intents) <=> fired = <<>>

\* C16 witness: a text rule fired through a token that is not the first of its
\* rule, a cluster rule fired too, and the text label precedes the cluster label.
C16_Witness ==
    /\ Returned
    /\ ~contains(production_tokens[1], IntentText)
    /\ Fires(2)
    /\ Fires(5)
    /\ \E i \in DOMAIN intents, j \in DOMAIN intents :
           i < j /\ intents[i] = "production-operations" /\ intents[j] = "mcp-integration"

\* The rules whose trigger holds for the entry.
Fired == {k \in DOMAIN IntentLabels : Fires(k)}

\* C29: at most one of the three cluster rules fires, so at most five labels
\* are accumulated, and the list returned is the accumulated list, none of its
\* labels cut by the cap of five.
C29_CapDropsNothing ==
    Returned =>
        /\ Cardinality(Fired \cap 5..7) <= 1
        /\ Cardinality(Fired) <= 5
        /\ Len(accumulated_intents(entry.title, entry.summary, entry.cluster)) <= 5
        /\ intents = accumulated_intents(entry.title, entry.summary, entry.cluster)
        /\ Len(intents) = IF Fired = {} THEN 1 ELSE Cardinality(Fired)

\* C29 witness: the four text rules and the rule of the entry's cluster fired;
\* the fifth label returned is the cluster's.
C29_Witness ==
    /\ Returned
    /\ Fired \cap 1..4 = 1..4
    /\ Cardinality(Fired) = 5
    /\ Len(intents) = 5
    /\ \E k \in 5..7 : Fires(k) /\ intents[5] = IntentLabels[k]

----------------------------------------------------------------------------
(* Properties of the keyword extractor, under SpecKeywords                 *)

\* f"{slug} {title} {summary}".lower() of the entry.
Blob == lower(entry.slug \o <<" ">> \o entry.title \o <<" ">> \o entry.summary)

\* Position i of the text b holds a letter a..z or a digit.
TokenChar(b, i) == i \in DOMAIN b /\ ord[b[i]] \in (48..57) \cup (97..122)

\* The positions at which a token of b starts.
TokenStarts(b) == {i \in DOMAIN b : TokenChar(b, i) /\ ~TokenChar(b, i - 1)}

\* The token that starts at position i: the longest run of token characters.
TokenAt(b, i) ==
    SubSeq(b, i, CHOOSE j \in i..Len(b) :
                     /\ ~TokenChar(b, j + 1)
                     /\ \A k \in i..j : TokenChar(b, k))

\* The token stream of b.
TokenStream(b) ==
    LET starts == TokenStarts(b)
    IN  [k \in 1..Cardinality(starts) |->
            TokenAt(b, CHOOSE i \in starts : Cardinality({j \in starts : j <= i}) = k)]

\* A token the extractor leaves out: shorter than 3, all digits, a stopword, a
\* URL artifact (it starts with http or www) or a hosting word.
Excluded(t) ==
    \/ Len(t) < 3
    \/ \A i \in DOMAIN t : ord[t[i]] \in 48..57
    \/ t \in COMMON_STOPWORDS
    \/ (Len(t) >= 4 /\ SubSeq(t, 1, 4) = http)
    \/ SubSeq(t, 1, 3) = www
    \/ t \in HOSTING_WORDS

\* The places of a token stream whose token is not left out and does not repeat
\* an earlier token of the stream.
FirstOccurrences(stream) ==
    {i \in DOMAIN stream :
        /\ ~Excluded(stream[i])
        /\ \A j \in 1..(i - 1) : stream[j] # stream[i]}

\* C17: the list extract_keywords returns has at most 18 tokens, no token
\* twice, and no uppercase letter: every character is a..z or 0..9.
C17_AtMost18DistinctLowercase ==
    Returned =>
        /\ Len(rec_keywords) <= 18
        /\ \A i \in DOMAIN rec_keywords, j \in DOMAIN rec_keywords :
               rec_keywords[i] = rec_keywords[j] => i = j
        /\ \A i \in DOMAIN rec_keywords :
               /\ rec_keywords[i] = lower(rec_keywords[i])
               /\ \A k \in DOMAIN rec_keywords[i] :
                      ord[rec_keywords[i][k]] \in (48..57) \cup (97..122)

\* C17 witness: an entry with uppercase letters and more than 18 distinct
\* eligible tokens, of which a token occurs twice, and 18 keywords returned.
C17_Witness ==
    /\ Returned
    /\ Len(rec_keywords) = 18
    /\ LET stream == TokenStream(Blob)
       IN  /\ Cardinality(FirstOccurrences(stream)) > 18
           /\ \E i \in DOMAIN stream, j \in DOMAIN stream :
                  i < j /\ stream[i] = stream[j] /\ ~Excluded(stream[i])
    /\ Blob # entry.slug \o <<" ">> \o entry.title \o <<" ">> \o entry.summary

\* C18: the list is the first 18 elements of the token stream of slug, title
\* and summary without the excluded tokens and without later repeats, each
\* token at the place of its first occurrence; no excluded token is in it.
C18_FilteredStream ==
    Returned =>
        LET stream == TokenStream(Blob)
            firsts == FirstOccurrences(stream)
        IN  /\ Len(rec_keywords) = Min(18, Cardinality(firsts))
            /\ \A i \in firsts :
                   LET place == Cardinality({j \in firsts : j <= i})
                   IN  place <= 18 => rec_keywords[place] = stream[i]
            /\ \A k \in DOMAIN rec_keywords : ~Excluded(rec_keywords[k])

\* C18 witness: the stream holds a short token, an all-digit token, a stopword,
\* a token that starts with http, a hosting word and a repeated token, and some
\* keyword is returned.
C18_Witness ==
    /\ Returned
    /\ rec_keywords # <<>>
    /\ LET stream == TokenStream(Blob)
       IN  /\ \E i \in DOMAIN stream : Len(stream[i]) < 3
           /\ \E i \in DOMAIN stream : \A k \in DOMAIN stream[i] : ord[stream[i][k]] \in 48..57
           /\ \E i \in DOMAIN stream : stream[i] \in COMMON_STOPWORDS
           /\ \E i \in DOMAIN stream : Len(stream[i]) > 4 /\ SubSeq(stream[i], 1, 4) = http
           /\ \E i \in DOMAIN stream : stream[i] \in HOSTING_WORDS
           /\ \E i \in DOMAIN stream, j \in DOMAIN stream :
                  i < j /\ stream[i] = stream[j] /\ ~Excluded(stream[i])

----------------------------------------------------------------------------
(* Properties of the summary filter, under SpecBuild                       *)

\* A summary candidate that is_noise_summary rejects; the empty one is among them.
Noisy(candidate) == is_noise_summary(candidate)

\* C19: when the quote candidate is non-empty and noisy and the paragraph
\* candidate is non-empty and not noisy, the summary is the paragraph.
C19_NoisyQuoteCleanParagraph ==
    (Returned /\ quote # <<>> /\ Noisy(quote) /\ paragraph # <<>> /\ ~Noisy(paragraph)) =>
        rec_summary = paragraph

\* C19 witness: a noisy quote line, a clean paragraph different from it, and
\* the paragraph is the summary of the record built.
C19_Witness ==
    /\ pc = "built"
    /\ quote # <<>> /\ Noisy(quote)
    /\ paragraph # <<>> /\ ~Noisy(paragraph)
    /\ paragraph # quote
    /\ rec_summary = paragraph

\* C20 as stated: when both candidates are noisy, the summary of the record is
\* the placeholder built from its title.
C20_Original ==
    (pc = "built" /\ Noisy(quote) /\ Noisy(paragraph)) =>
        rec_summary = placeholder(rec_title)

\* C20 amended: when both candidates are noisy, the summary of the record is the
\* quote if it is not empty, else the paragraph if it is not empty, and the
\* placeholder "Deep technical walkthrough of {title}." only when both are empty.
C20_PlaceholderWhenBothEmpty ==
    (pc = "built" /\ Noisy(quote) /\ Noisy(paragraph)) =>
        /\ (quote = <<>> /\ paragraph = <<>>) =>
               rec_summary = walkthrough_of \o rec_title \o <<".">>
        /\ quote # <<>> => rec_summary = quote
        /\ (quote = <<>> /\ paragraph # <<>>) => rec_summary = paragraph
        /\ rec_title # <<>>

\* C20 witness: a body with a quote line and a paragraph that both clean to
\* nothing, and the record's summary is the placeholder with its title.
C20_Witness ==
    /\ pc = "built"
    /\ first_quote(entry.body) # <<>>
    /\ first_paragraph(entry.body) # <<>>
    /\ quote = <<>>
    /\ paragraph = <<>>
    /\ rec_summary = walkthrough_of \o rec_title \o <<".">>

\* C21: when both candidates are noisy and the quote candidate is not empty,
\* best_summary returns the quote, not the paragraph and not the empty string;
\* the record built keeps it.
C21_NoisyQuoteLastResort ==
    (Returned /\ quote # <<>> /\ Noisy(quote) /\ Noisy(paragraph)) =>
        /\ rec_summary = quote
        /\ rec_summary # <<>>

\* C21 witness: a noisy quote and a noisy, non-empty paragraph that differs
\* from it, and best_summary returned the quote.
C21_Witness ==
    /\ pc = "returned"
    /\ quote # <<>> /\ Noisy(quote)
    /\ paragraph # <<>> /\ Noisy(paragraph)
    /\ paragraph # quote
    /\ rec_summary = quote

----------------------------------------------------------------------------
(* Properties of the records built, under SpecBuild                        *)

\* The lines of the body that start with "# ".
HeadingLines == {i \in DOMAIN entry.body : startswith(entry.body[i], <<"#", " ">>)}

\* The text of the first heading line, "" when there is none.
FirstHeading ==
    IF HeadingLines = {} THEN <<>>
    ELSE LET i == CHOOSE n \in HeadingLines : \A k \in HeadingLines : n <= k
         IN  strip(SubSeq(entry.body[i], 3, Len(entry.body[i])))

\* t is the slug with "-" replaced by " ", each letter that opens a run of
\* letters in uppercase and every other letter in lowercase.
IsTitleCasedSlug(t) ==
    /\ Len(t) = Len(entry.slug)
    /\ \A i \in DOMAIN t :
           LET c == entry.slug[i]
               opens == i = 1 \/ ord[entry.slug[i - 1]] \notin (65..90) \cup (97..122)
           IN  IF c = "-" THEN t[i] = " "
               ELSE IF ord[c] \in (65..90) \cup (97..122)
               THEN /\ lower(<<t[i]>>) = lower(<<c>>)
                    /\ ord[t[i]] \in (IF opens THEN 65..90 ELSE 97..122)
               ELSE t[i] = c

\* C22: for an entry with a non-empty slug, the record's title is not empty:
\* it is the first heading, or without one the title-cased slug with "-"
\* replaced by " "; its summary is not empty: it is the placeholder built from
\* the title when both candidates are empty.
C22_NoEmptyMandatoryField ==
    (pc = "built" /\ entry.slug # <<>>) =>
        /\ rec_title # <<>>
        /\ IF FirstHeading # <<>> THEN rec_title = FirstHeading ELSE IsTitleCasedSlug(rec_title)
        /\ rec_summary # <<>>
        /\ (quote = <<>> /\ paragraph = <<>>) =>
               rec_summary = walkthrough_of \o rec_title \o <<".">>

\* C22 witness: a heading line without text and no summary candidate: the
\* title comes from the slug and the summary is the placeholder.
C22_Witness ==
    /\ pc = "built"
    /\ HeadingLines # {}
    /\ FirstHeading = <<>>
    /\ quote = <<>>
    /\ paragraph = <<>>
    /\ \E i \in DOMAIN entry.slug : entry.slug[i] = "-"
    /\ IsTitleCasedSlug(rec_title)
    /\ rec_summary = walkthrough_of \o rec_title \o <<".">>

----------------------------------------------------------------------------
(* Properties of a run of main(), under SpecMain                           *)

\* The hubs of the table whose cluster no rule of CLUSTER_RULES carries.
UnknownClusterHubs == {i \in DOMAIN hub_table : hub_table[i].cluster \notin RuleClusters}

SlugBefore(a, b) ==
    \/ /\ Len(a) < Len(b)
       /\ \A i \in 1..Len(a) : a[i] = b[i]
    \/ \E k \in 1..Min(Len(a), Len(b)) :
           /\ ord[a[k]] < ord[b[k]]
           /\ \A i \in 1..(k - 1) : a[i] = b[i]

\* The slugs of the directories of the corpus that hold an index.md.
IndexedSlugs == {d.slug : d \in {x \in corpus : x.has_index}}

\* Some run of main() has built its records.
MainBuilt == pc \in {"main_built", "main_done", "main_rerun"}

\* C24: the record sequence holds one record per slug of the corpus, in
\* ascending slug order, each with the cluster its text classifies to; a second
\* run on the same corpus and hub table, whatever order the directory is listed
\* in, gives the same record sequence and the same slug sequence for every hub.
C24_Deterministic ==
    /\ MainBuilt =>
           /\ SlugSet(records) = IndexedSlugs
           /\ \A i, j \in DOMAIN records :
                  i < j => SlugBefore(records[i].slug, records[j].slug)
           /\ \A i \in DOMAIN records :
                  records[i].cluster =
                      classify_cluster(records[i].slug, records[i].title,
                                       records[i].summary, records[i].keywords)
    /\ pc = "main_rerun" =>
           /\ records = first_run.records
           /\ hub_coverage = first_run.hub_coverage

\* C24 witness: two runs that listed two indexed directories in different
\* orders, with a hub that selected a tutorial.
C24_Witness ==
    /\ pc = "main_rerun"
    /\ first_run.listing # listing
    /\ Len(records) = 2
    /\ \E k \in DOMAIN hub_coverage : hub_coverage[k] # <<>>
    /\ records = first_run.records
    /\ hub_coverage = first_run.hub_coverage

\* The slug list of every hub processed so far is the selection of that hub
\* alone from the record sequence.
HubsIndependent ==
    pc \in {"main_built", "main_done"} =>
        \A k \in DOMAIN hub_coverage :
            hub_coverage[k] =
                slugs_of(select_records_for_hub(records, hub_table[k], DefaultLimit))

\* C25: the selection of a hub leaves the record sequence as it was, order and
\* fields, through the whole loop over the hubs; the slug list of each hub is
\* what selecting that hub alone from the records gives, whichever hubs were
\* processed before it.
C25_SelectionFrame ==
    /\ []HubsIndependent
    /\ [][pc = "main_built" => records' = records]_vars

\* C25 witness: every hub processed over two records, two hubs having
\* selected one of them each.
C25_Witness ==
    /\ pc = "main_done"
    /\ Len(records) = 2
    /\ \E j, k \in DOMAIN hub_coverage :
           /\ j < k
           /\ hub_coverage[j] = <<records[2].slug>>
           /\ hub_coverage[k] = <<records[1].slug>>

\* The hubs of the table target pairwise distinct clusters.
DistinctHubClusters ==
    \A j, k \in DOMAIN hub_table : j # k => hub_table[j].cluster # hub_table[k].cluster

\* The slugs of a slug list.
SlugsIn(slugs) == {slugs[i] : i \in DOMAIN slugs}

\* C28: with a hub table whose hubs target pairwise distinct clusters, as the
\* configured one does, and records of pairwise distinct slugs, no slug is in
\* the selections of two different hubs.
C28_HubsDisjoint ==
    (MainBuilt /\ DistinctHubClusters /\ Cardinality(SlugSet(records)) = Len(records)) =>
        \A j, k \in DOMAIN hub_coverage :
            j # k => SlugsIn(hub_coverage[j]) \cap SlugsIn(hub_coverage[k]) = {}

\* C28 witness: the configured table, every hub processed, and two records
\* that went to two different hubs.
C28_Witness ==
    /\ pc = "main_done"
    /\ hub_table = QUERY_HUBS
    /\ DistinctHubClusters
    /\ Len(records) = 2
    /\ Cardinality({k \in DOMAIN hub_coverage : hub_coverage[k] # <<>>}) = 2

\* Label l is among the intent signals of record r.
Carries(r, l) == \E i \in DOMAIN r.intent_signals : r.intent_signals[i] = l

\* The preferred intents of hub h other than label l.
IntentsWithout(h, l) == SelectSeq(h.intents, LAMBDA x : x # l)

\* C30: every record built carries "mcp-integration" exactly when its cluster
\* is mcp-ecosystem, "agentic-coding" exactly when it is ai-coding-agents and
\* "rag-implementation" exactly when it is rag-and-retrieval; so for a hub of
\* the taskade-ecosystem cluster the score of every candidate is what it is
\* without "mcp-integration" among the hub's preferred intents.
C30_ClusterLabelIffCluster ==
    MainBuilt =>
        \A i \in DOMAIN records :
            LET r == records[i]
            IN  /\ Carries(r, "mcp-integration") <=> r.cluster = "mcp-ecosystem"
                /\ Carries(r, "agentic-coding") <=> r.cluster = "ai-coding-agents"
                /\ Carries(r, "rag-implementation") <=> r.cluster = "rag-and-retrieval"
                /\ \A k \in DOMAIN hub_table :
                       LET h == hub_table[k]
                       IN  (h.cluster = "taskade-ecosystem" /\ r.cluster = h.cluster) =>
                               score_record_for_hub(r, h.queries, h.intents) =
                                   score_record_for_hub(r, h.queries,
                                       IntentsWithout(h, "mcp-integration"))

\* C30 witness: a record of the taskade-ecosystem cluster whose title mentions
\* MCP, selected by the Taskade hub, which prefers "mcp-integration".
C30_Witness ==
    /\ pc = "main_done"
    /\ \E i \in DOMAIN records, k \in DOMAIN hub_table :
           /\ records[i].cluster = "taskade-ecosystem"
           /\ contains(<<"m", "c", "p">>, lower(records[i].title))
           /\ hub_table[k].cluster = "taskade-ecosystem"
           /\ \E j \in DOMAIN hub_table[k].intents :
                  hub_table[k].intents[j] = "mcp-integration"
           /\ hub_coverage[k] = <<records[i].slug>>
    /\ \E i \in DOMAIN records : Carries(records[i], "mcp-integration")

----------------------------------------------------------------------------
(* Properties of chapter deepening, under SpecDeepen                       *)

\* How many times the marker is in a text.
MarkerCount(chapter) == Cardinality({i \in DOMAIN chapter : chapter[i] = DEPTH_MARKER})

\* The file has at least target_lines lines once a run has returned; a run
\* with the target of the run before it returns changed = False, which main
\* counts as skipped, and leaves the file as it was; over all runs the file
\* gained at most one marker, so at most one base block.
DeepenedOnce ==
    /\ MarkerCount(chapter_file) <= MarkerCount(first_chapter) + 1
    /\ MarkerCount(first_chapter) > 0 => MarkerCount(chapter_file) = MarkerCount(first_chapter)
    /\ pc = "returned" =>
           /\ line_count(chapter_file) >= target_lines
           /\ (depth_runs >= 2 /\ target_lines = last_run.target) =>
                  /\ depth_returned[1] = FALSE
                  /\ chapter_file = last_run.chapter

\* Every pass of the scenario loop brings `remaining` down, and the loop has
\* made no more passes than there are lines to reach.
LoopAdvances ==
    /\ pc = "scenarios" => scenario_index - 1 <= target_lines
    /\ pc = "returned" => scenario_index - 1 <= target_lines

\* C26: deepening is idempotent: after a run the chapter has at least
\* target_lines lines, and a second run with the same target changes nothing
\* and is reported as skipped; the base block with the depth marker is
\* appended at most once over all runs; every pass of the scenario loop
\* lowers `remaining`, so the loop ends.
C26_Idempotent ==
    /\ []DeepenedOnce
    /\ []LoopAdvances
    /\ [][(pc = "scenarios" /\ pc' = "scenarios") =>
              (remaining > 0 /\ remaining' < remaining)]_vars

\* C26 witness: the third run, with the target of the second, on a file that
\* the first run gave the base block and the second run scenario blocks only.
C26_Witness ==
    /\ pc = "returned"
    /\ depth_runs = 3
    /\ target_lines = last_run.target
    /\ depth_returned = <<FALSE, line_count(chapter_file), line_count(chapter_file)>>
    /\ chapter_file = last_run.chapter
    /\ MarkerCount(first_chapter) = 0
    /\ MarkerCount(chapter_file) = 1
    /\ line_count(chapter_file) >= 130

----------------------------------------------------------------------------
(* Properties of repository verification, under SpecVerify                 *)

\* The repositories of a list.
Requested(repo_list) == {repo_list[i] : i \in DOMAIN repo_list}

\* No more fetches are running than the pool has workers.
PoolBounded == Cardinality(running) <= max_workers

\* Every future the loop has taken left the entry of its repository: the
\* dict the fetch returned, or the unverified entry of a fetch that raised.
EntriesCollected ==
    /\ DOMAIN results = Requested(yielded)
    /\ \A repo \in Requested(yielded) :
           /\ repo \in DOMAIN futures
           /\ results[repo].repo = repo
           /\ futures[repo].raised =>
                  results[repo].verified = FALSE /\ results[repo].reason = "unhandled"
           /\ ~futures[repo].raised => results[repo] = futures[repo].value

\* When the call has returned no task is queued or running, every task has
\* finished, and the map has the requested repositories as its keys.
ReturnedComplete ==
    pc = "returned" =>
        /\ work_queue = <<>>
        /\ running = {}
        /\ DOMAIN futures = Requested(repos)
        /\ DOMAIN results = Requested(repos)

\* C27: in a call of verify_repositories with max_workers >= 1 and a list of
\* distinct repositories, whatever the interleaving and the order in which
\* the fetches complete, at most max_workers fetches run at once, the call
\* returns only after every task has finished, and the returned map has
\* exactly one entry for each requested repository, a fetch that raised
\* giving a verified=False entry for its repository while the others keep
\* theirs.
C27_PoolBoundedAndComplete == PoolBounded /\ EntriesCollected /\ ReturnedComplete

\* A call with more repositories than workers has returned; the second
\* fetch finished first and raised, and the first was verified.
C27_Witness ==
    /\ pc = "returned"
    /\ Len(repos) = MaxRepos
    /\ max_workers = MaxWorkers
    /\ MaxWorkers < MaxRepos
    /\ yielded[1] = 2
    /\ futures[2].raised
    /\ results[2].verified = FALSE
    /\ results[1].verified = TRUE

============================================================================
